---- MODULE Spec2Model ----
(***************************************************************************)
(* Model of the rating / progress tracker of TW3.0 (progress_tracker.py):  *)
(* RatingCalculator, ProgressTracker over its SQLite table                 *)
(* progress_records, and MilestoneManager; of the SGF parser               *)
(* (sgf_parser.py); and of the board and game history of                   *)
(* TWIntegratedSystem (integrated_system.py, board.py).                    *)
(*                                                                         *)
(* Number representation.  The program computes in binary floating point.  *)
(* The model holds every rating in hundredths of a rating point, every     *)
(* K-factor in tenths, and every probability (game result, expected score, *)
(* win rate) in ten-thousandths.  Divisions round towards minus infinity.  *)
(* The logistic curve 10^(d/400) is tabulated every 50 rating points (the  *)
(* eighth roots of 10), so it is exact at d = 0 and at multiples of 400    *)
(* and monotone in between.                                                *)
(*                                                                         *)
(* Time.  datetime.now() is modelled by an integer clock of ticks that     *)
(* never runs backwards; TicksPerSecond ticks make one second, which is    *)
(* the resolution of record_id.  A committed INSERT takes at least a tick. *)
(*                                                                         *)
(* Text.  A Python str is a sequence of one-character strings.             *)
(***************************************************************************)
EXTENDS Integers, Sequences, FiniteSets, TLC

VARIABLES
    db,               \* table progress_records: the rows, in insertion order
    clock,            \* the wall clock read by datetime.now(), in ticks
    leaked,           \* an unclosed connection still holds the write lock
    milestones,       \* MilestoneManager.milestones[key]['achieved']
    calls,            \* history: every record_game_result call and its outcome
    reported,         \* history: per user and key, the games played at each return
    last_check,       \* history: the latest check_milestones call and its result
    rating_trials,    \* direct evaluations of calculate_new_rating
    strength_trials,  \* direct evaluations of estimate_strength
    pc,               \* per thread: position inside record_game_result
    frame,            \* per thread: the local variables of record_game_result
    parser_size,      \* SGFParser.size of the parser instance in use
    parses,           \* history: every parse_sgf / load_from_file call
    decodes,          \* direct evaluations of the coordinate decoding
    board,            \* TWIntegratedSystem.board: its size and its stones
    game_history,     \* TWIntegratedSystem.game_history
    current_player,   \* TWIntegratedSystem.current_player
    current_sgf_path, \* TWIntegratedSystem.current_sgf_path
    sgf_parser,       \* TWIntegratedSystem.sgf_parser: the size it holds
    gtp_trials,       \* direct evaluations of the two coordinate conversions
    system_calls,     \* history: every call on the TWIntegratedSystem
    result_cache,     \* PerformanceOptimizer.result_cache, in insertion order
    stats,            \* PerformanceOptimizer.stats: the three counters
    executions,       \* how often the wrapped function has been executed
    completed_calls,  \* history: the completed calls of the wrapped function
    dropped,          \* history: the keys deleted from result_cache
    cache_use,        \* history: how many calls, loops and clear_cache so far
    last_cache_call,  \* history: the call of the wrapped function just made
    analysis_queue,   \* TWIntegratedSystem.analysis_queue
    result_queue,     \* TWIntegratedSystem.result_queue
    caller,           \* per calling thread: its place in analyze_position_for_interface
    worker,           \* the request the analysis thread is working on
    analysis_calls,   \* history: the completed analyze_position_for_interface calls
    discarded,        \* history: the results taken off result_queue and not returned
    is_running,       \* ContinuousLearningSystem.is_running
    learning_thread,  \* ContinuousLearningSystem.learning_thread
    loops,            \* the _learning_loop threads started so far: where each is
    learning_log,     \* ContinuousLearningSystem.learning_log: who added each entry
    learning_use,     \* history: how many start() and stop() calls so far
    student_progress, \* table student_progress: the status per student and lesson
    student_id,       \* InteractiveTeachingMode.student_id
    current_lesson,   \* InteractiveTeachingMode.current_lesson
    given,            \* history: per student, the lessons the sessions started with
    ever_completed,   \* history: the lessons each student has completed at some time
    last_session,     \* history: the start_teaching_session call just made
    task_queue,       \* MultiThreadedProcessor.task_queue
    unfinished_tasks, \* task_queue.unfinished_tasks
    processor_result_queue, \* MultiThreadedProcessor.result_queue
    shutdown_event,   \* MultiThreadedProcessor.shutdown_event
    workers,          \* MultiThreadedProcessor.workers: where each thread is
    processor_stats,  \* MultiThreadedProcessor.stats: the three counters
    processor_use     \* history: the tasks submitted, and how far shutdown() is

\* the state of the SGF parser and of the integrated system
sgf_vars == <<parser_size, parses, decodes>>
system_vars == <<board, game_history, current_player, current_sgf_path, sgf_parser, gtp_trials, system_calls>>

\* the state of the tracker, and of the services around the system
tracker_vars == <<db, clock, leaked, milestones, calls, reported, last_check, rating_trials, strength_trials, pc, frame>>
cache_vars == <<result_cache, stats, executions, completed_calls, dropped, cache_use, last_cache_call>>
analysis_vars == <<analysis_queue, result_queue, caller, worker, analysis_calls, discarded>>
learning_vars == <<is_running, learning_thread, loops, learning_log, learning_use>>
teaching_vars == <<student_progress, student_id, current_lesson, given, ever_completed, last_session>>
processor_vars == <<task_queue, unfinished_tasks, processor_result_queue, shutdown_event, workers, processor_stats, processor_use>>
service_vars == <<cache_vars, analysis_vars, learning_vars, teaching_vars, processor_vars>>

vars == <<tracker_vars, sgf_vars, system_vars, service_vars>>

-----------------------------------------------------------------------------
(* Bounds of the model *)

MaxCalls == 3            \* record_game_result calls in a sequential run
MaxClock == 5            \* the last tick of the clock
TicksPerSecond == 2
MaxGames == 3            \* record_game_result calls in a run with milestones
MaxChecks == 2           \* check_milestones calls in a run with milestones
MaxTrials == 3           \* successive games in a direct rating evaluation
MaxThreadCalls == 2      \* record_game_result calls in a run with two threads
MaxParses == 2           \* parse_sgf / load_from_file calls on one parser
MaxSystemCalls == 3      \* calls on one TWIntegratedSystem
MaxCacheCalls == 2        \* single calls of the wrapped function
MaxLoops == 2            \* loops of calls of the wrapped function
MaxClears == 1           \* clear_cache calls
MaxAnalysisCalls == 2    \* analyze_position_for_interface calls of one thread
MaxLearningCalls == 4    \* start() and stop() calls on one ContinuousLearningSystem
MaxLearningSteps == 3    \* learning steps executed
MaxSessions == 4         \* start_teaching_session calls for one student
MaxTasks == 2            \* tasks submitted to the MultiThreadedProcessor
LoopLength == 500        \* the calls of one loop

(* Units of the fixed-point representation *)
Unit == 10 * 10          \* a rating point, in hundredths
Prob == 100 * 100        \* probability 1.0, in ten-thousandths
Tenth == 100 \div 10     \* K-factor 1.0, in tenths

(* Program constants (in the program's own units) *)
initial_rating == 1500
min_rating == 100
min_k_factor == 20
base_k_factor == 60
recent_days == 30

Users == {"test_player", "demo_player"}
Threads == {1, 2}

\* game_result: 1 = win, 0.5 = draw, 0 = loss
WIN == Prob
DRAW == Prob \div 2
LOSS == 0
Results == {LOSS, DRAW, WIN}

\* opponent ratings offered to record_game_result in a sequential run
OppRatings == {1500 * Unit}

Max(a, b) == IF a >= b THEN a ELSE b

RECURSIVE Pow10(_)
Pow10(n) == IF n = 0 THEN 1 ELSE 10 * Pow10(n - 1)

Range(s) == {s[i] : i \in 1..Len(s)}

RECURSIVE SumSeq(_)
SumSeq(s) == IF s = <<>> THEN 0 ELSE Head(s) + SumSeq(Tail(s))

-----------------------------------------------------------------------------
(* RatingCalculator *)

\* 1000 * 10^(j/8) for j = 0..7
Pow10Eighth == <<1000, 1334, 1778, 2371, 3162, 4217, 5623, 7499>>

\* 10 ** ((opponent_rating - old_rating) / 400) raises OverflowError once the
\* exponent passes log10 of the largest double (308.25..)
pow_overflows(old_rating, opponent_rating) ==
    opponent_rating - old_rating > 123302 * Unit

\* expected = 1.0 / (1 + 10**((opponent_rating - old_rating) / 400))
expected_score(old_rating, opponent_rating) ==
    LET steps == (opponent_rating - old_rating) \div (50 * Unit)
        q == steps \div 8
        m == Pow10Eighth[(steps % 8) + 1]
    IN  IF q >= 5 THEN 0
        ELSE IF q <= -5 THEN Prob
        ELSE LET p == IF q >= 0 THEN m * Pow10(q) ELSE m \div Pow10(-q)
             IN  (Prob * 1000) \div (1000 + p)

\* variant: the K-factor without its floor
k_factor_not_floored(games_played) ==
    base_k_factor * Tenth - games_played

\* variant: the K-factor taken from the count before this game
k_factor_before_game(games_played) ==
    Max(min_k_factor * Tenth, base_k_factor * Tenth - (games_played - 1))

\* k_factor = max(20, 60 - games_played * 0.1), in tenths
k_factor(games_played) ==
    Max(min_k_factor * Tenth, base_k_factor * Tenth - games_played)

\* variant: the adjustment applied with the wrong sign
updated_rating_sign_flipped(old_rating, k, game_result, expected) ==
    old_rating - (k * (game_result - expected)) \div ((Prob * Tenth) \div Unit)

\* old_rating + k_factor * (game_result - expected)
updated_rating(old_rating, k, game_result, expected) ==
    old_rating + (k * (game_result - expected)) \div ((Prob * Tenth) \div Unit)

\* variant: the result returned without the floor
rating_not_floored(new_rating) == new_rating

\* return max(100, new_rating)
floor_rating(new_rating) == Max(min_rating * Unit, new_rating)

calculate_new_rating(old_rating, opponent_rating, game_result, games_played) ==
    IF pow_overflows(old_rating, opponent_rating)
    THEN [error |-> "OverflowError", expected |-> 0, k_factor |-> 0,
          new_rating |-> 0]
    ELSE LET expected == expected_score(old_rating, opponent_rating)
             k == k_factor(games_played)
         IN  [error |-> "", expected |-> expected, k_factor |-> k,
              new_rating |-> floor_rating(
                  updated_rating(old_rating, k, game_result, expected))]

\* The labels of the source are "30级" .. "1段" .. "7段+"; 级 is written kyu
\* and 段 dan.
RankOrder == <<"30 kyu", "25 kyu", "20 kyu", "15 kyu", "10 kyu", "5 kyu",
               "1 dan", "2 dan", "3 dan", "4 dan", "5 dan", "6 dan", "7 dan+">>

\* variant: the 1500 boundary taken with <=
estimate_strength_inclusive(rating) ==
    IF rating < 300 * Unit THEN "30 kyu"
    ELSE IF rating < 600 * Unit THEN "25 kyu"
    ELSE IF rating < 900 * Unit THEN "20 kyu"
    ELSE IF rating < 1200 * Unit THEN "15 kyu"
    ELSE IF rating <= 1500 * Unit THEN "10 kyu"
    ELSE IF rating < 1800 * Unit THEN "5 kyu"
    ELSE IF rating < 2100 * Unit THEN "1 dan"
    ELSE IF rating < 2400 * Unit THEN "2 dan"
    ELSE IF rating < 2700 * Unit THEN "3 dan"
    ELSE IF rating < 3000 * Unit THEN "4 dan"
    ELSE IF rating < 3300 * Unit THEN "5 dan"
    ELSE IF rating < 3600 * Unit THEN "6 dan"
    ELSE "7 dan+"

estimate_strength(rating) ==
    IF rating < 300 * Unit THEN "30 kyu"
    ELSE IF rating < 600 * Unit THEN "25 kyu"
    ELSE IF rating < 900 * Unit THEN "20 kyu"
    ELSE IF rating < 1200 * Unit THEN "15 kyu"
    ELSE IF rating < 1500 * Unit THEN "10 kyu"
    ELSE IF rating < 1800 * Unit THEN "5 kyu"
    ELSE IF rating < 2100 * Unit THEN "1 dan"
    ELSE IF rating < 2400 * Unit THEN "2 dan"
    ELSE IF rating < 2700 * Unit THEN "3 dan"
    ELSE IF rating < 3000 * Unit THEN "4 dan"
    ELSE IF rating < 3300 * Unit THEN "5 dan"
    ELSE IF rating < 3600 * Unit THEN "6 dan"
    ELSE "7 dan+"

-----------------------------------------------------------------------------
(* ProgressTracker: the table and its queries *)

\* Optional[ProgressRecord]: <<>> is None, <<r>> is the record r.
None == <<>>

RowsOf(user_id) == SelectSeq(db, LAMBDA r : r.user_id = user_id)

\* SELECT ... WHERE user_id = ? ORDER BY timestamp DESC LIMIT 1.  Rows with
\* the same timestamp may come in either order: every row with the greatest
\* timestamp is a possible answer.
get_latest_record(user_id) ==
    LET rows == Range(RowsOf(user_id))
    IN  IF rows = {} THEN {None}
        ELSE {<<r>> : r \in {x \in rows :
                               \A y \in rows : y.timestamp <= x.timestamp}}

RECURSIVE InsertByTimestamp(_, _)
InsertByTimestamp(r, s) ==
    IF s = <<>> THEN <<r>>
    ELSE IF r.timestamp < Head(s).timestamp THEN <<r>> \o s
    ELSE <<Head(s)>> \o InsertByTimestamp(r, Tail(s))

RECURSIVE OrderByTimestamp(_)
OrderByTimestamp(s) ==
    IF s = <<>> THEN <<>>
    ELSE InsertByTimestamp(s[Len(s)], OrderByTimestamp(SubSeq(s, 1, Len(s) - 1)))

\* timedelta(days=days), in ticks
Days(days) == days * 24 * 3600 * TicksPerSecond

\* SELECT ... WHERE user_id = ? AND timestamp >= ? ORDER BY timestamp ASC
get_recent_records(user_id, days, now) ==
    OrderByTimestamp(SelectSeq(RowsOf(user_id),
                               LAMBDA r : r.timestamp >= now - Days(days)))

_calculate_improvement_score(recent_records, current_rating) ==
    IF Len(recent_records) < 2 THEN 0
    ELSE LET n == Len(recent_records)
             ratings_over_time == [i \in 1..n |-> recent_records[i].strength_estimate]
             sum_x == SumSeq([i \in 1..n |-> i - 1])
             sum_y == SumSeq(ratings_over_time)
             sum_xy == SumSeq([i \in 1..n |-> (i - 1) * ratings_over_time[i]])
             sum_x2 == SumSeq([i \in 1..n |-> (i - 1) * (i - 1)])
             den == n * sum_x2 - sum_x * sum_x
             slope == IF den # 0 THEN (n * sum_xy - sum_x * sum_y) \div den ELSE 0
             recent_growth == current_rating - ratings_over_time[1]
         IN  (7 * slope + 3 * (recent_growth \div Max(1, n))) \div 10

\* the branch on last_record of record_game_result
old_rating_of(last_record) ==
    IF last_record # None THEN last_record[1].rating ELSE initial_rating * Unit

\* variant: the count passed on without counting this game
games_played_not_counted(last_record) ==
    IF last_record # None THEN last_record[1].games_played ELSE 0

games_played_of(last_record) ==
    IF last_record # None THEN last_record[1].games_played + 1 ELSE 1

\* variant: a draw counted as a win
games_won_counting_draws(last_record, game_result) ==
    (IF last_record # None THEN last_record[1].games_won ELSE 0)
        + (IF game_result >= DRAW THEN 1 ELSE 0)

games_won_of(last_record, game_result) ==
    (IF last_record # None THEN last_record[1].games_won ELSE 0)
        + (IF game_result = WIN THEN 1 ELSE 0)

\* win_rate = games_won / games_played if games_played > 0 else 0
win_rate_of(games_won, games_played) ==
    IF games_played > 0 THEN (games_won * Prob) \div games_played ELSE 0

\* performance_rating = opponent_rating + 400 * (game_result - 0.5) * 2
performance_rating_of(opponent_rating, game_result) ==
    opponent_rating + (400 * Unit * (game_result - DRAW) * 2) \div Prob

\* f"prog_{user_id}_{int(datetime.now().timestamp())}"
record_id_of(user_id, now) == <<"prog", user_id, now \div TicksPerSecond>>

\* ProgressRecord(...) as built by record_game_result from the rating update
\* `rated`, the recent rows and the two clock readings
new_record(user_id, opponent_rating, game_result, last_record, rated, recent_records, id_time, stamp_time) ==
    LET games_played == games_played_of(last_record)
        games_won == games_won_of(last_record, game_result)
    IN  [record_id |-> record_id_of(user_id, id_time),
         user_id |-> user_id,
         timestamp |-> stamp_time,
         rating |-> rated.new_rating,
         rank |-> estimate_strength(rated.new_rating),
         win_rate |-> win_rate_of(games_won, games_played),
         strength_estimate |-> rated.new_rating,
         games_played |-> games_played,
         games_won |-> games_won,
         performance_rating |-> performance_rating_of(opponent_rating, game_result),
         improvement_score |->
             _calculate_improvement_score(recent_records, rated.new_rating)]

\* The outcome of save_progress_record on the table as it stands: the INSERT
\* waits for the write lock ("database is locked" when a leaked connection
\* holds it), then fails on a record_id already present.
save_outcome(record) ==
    IF leaked THEN "OperationalError"
    ELSE IF \E r \in Range(db) : r.record_id = record.record_id
         THEN "IntegrityError"
    ELSE "ok"

\* What the call log keeps of one call: its arguments, the row it fetched,
\* the rating update, how it ended, and how many rows of the user the table
\* held when the call fetched the latest one and when it came to save.
CallEntry(user_id, opponent_rating, game_result, last_record, rated, outcome, record_id, rows_at_read, rows_at_save) ==
    [user_id |-> user_id, opponent_rating |-> opponent_rating,
     game_result |-> game_result, last_record |-> last_record,
     expected |-> rated.expected, k_factor |-> rated.k_factor,
     outcome |-> outcome, record_id |-> record_id,
     rows_at_read |-> rows_at_read, rows_at_save |-> rows_at_save]

\* lines 314-342 of get_progress_summary: the summary of a user with records
summary_of_latest(user_id, latest, now) ==
    LET recent_records == get_recent_records(user_id, recent_days, now)
        rating_change == recent_records[Len(recent_records)].rating
                             - recent_records[1].rating
        trend == IF Len(recent_records) >= 2
                 THEN IF rating_change > 50 * Unit THEN "strongly_improving"
                      ELSE IF rating_change > 10 * Unit THEN "improving"
                      ELSE IF rating_change < -50 * Unit THEN "declining"
                      ELSE IF rating_change < -10 * Unit THEN "declining_slowly"
                      ELSE "stable"
                 ELSE "insufficient_data"
    IN  [current_rating |-> latest[1].rating,
         current_rank |-> latest[1].rank,
         total_games |-> latest[1].games_played,
         win_rate |-> latest[1].win_rate,
         improvement_trend |-> trend,
         last_updated |-> <<latest[1].timestamp>>]

\* get_progress_summary with the default rank taken at rating 0
get_progress_summary_rank_of_zero(user_id, latest, now) ==
    IF latest = None
    THEN [current_rating |-> initial_rating * Unit,
          current_rank |-> estimate_strength(0),
          total_games |-> 0,
          win_rate |-> 0,
          improvement_trend |-> "unknown",
          last_updated |-> None]
    ELSE summary_of_latest(user_id, latest, now)

\* get_progress_summary, given the row get_latest_record returned
get_progress_summary(user_id, latest, now) ==
    IF latest = None
    THEN [current_rating |-> initial_rating * Unit,
          current_rank |-> estimate_strength(initial_rating * Unit),
          total_games |-> 0,
          win_rate |-> 0,
          improvement_trend |-> "unknown",
          last_updated |-> None]
    ELSE summary_of_latest(user_id, latest, now)

-----------------------------------------------------------------------------
(* MilestoneManager *)

\* the keys of self.milestones, in the order check_milestones tests them
MilestoneKeys == <<"first_game", "ten_games", "win_rate_60", "win_rate_70",
                   "rating_1600", "rating_1800", "rating_2000", "first_win">>

\* the condition check_milestones tests for each key
milestone_met(key, summary, latest_record) ==
    CASE key = "first_game" -> summary.total_games >= 1
      [] key = "ten_games" -> summary.total_games >= 10
      [] key = "win_rate_60" -> summary.win_rate * 10 >= 6 * Prob
      [] key = "win_rate_70" -> summary.win_rate * 10 >= 7 * Prob
      [] key = "rating_1600" -> summary.current_rating >= 1600 * Unit
      [] key = "rating_1800" -> summary.current_rating >= 1800 * Unit
      [] key = "rating_2000" -> summary.current_rating >= 2000 * Unit
      [] key = "first_win" -> latest_record # None /\ latest_record[1].games_won >= 1

\* how many check_milestones calls there have been
NumChecks == IF last_check = None THEN 0 ELSE last_check[1].n

\* variant: the achieved flag not consulted
newly_achieved_unguarded(met, achieved) == met

\* "... and not self.milestones[key]['achieved']"
newly_achieved(met, achieved) == met /\ ~achieved

-----------------------------------------------------------------------------
(* SGFParser (sgf_parser.py) *)

default_size == 19

Whitespace == {" ", "\t", "\n", "\r"}
UpperCase == {"A", "B", "C", "D", "E", "F", "G", "H", "I", "J", "K", "L", "M",
              "N", "O", "P", "Q", "R", "S", "T", "U", "V", "W", "X", "Y", "Z"}
LowerCase == <<"a", "b", "c", "d", "e", "f", "g", "h", "i", "j", "k", "l", "m",
               "n", "o", "p", "q", "r", "s", "t", "u", "v", "w", "x", "y", "z">>
DigitChars == <<"0", "1", "2", "3", "4", "5", "6", "7", "8", "9">>

\* ord(c) - ord('a') for a lowercase letter c
ord_from_a(c) == (CHOOSE i \in 1..Len(LowerCase) : LowerCase[i] = c) - 1

\* str(n) of an int n >= 0
RECURSIVE str_int(_)
str_int(n) ==
    IF n < 10 THEN <<DigitChars[n + 1]>>
    ELSE str_int(n \div 10) \o <<DigitChars[(n % 10) + 1]>>

\* text[from..], and the text without its first characters
Tail_from(text, from) == SubSeq(text, from, Len(text))

\* str.strip()
RECURSIVE lstrip(_)
lstrip(text) ==
    IF text # <<>> /\ text[1] \in Whitespace THEN lstrip(Tail(text)) ELSE text

RECURSIVE rstrip(_)
rstrip(text) ==
    IF text # <<>> /\ text[Len(text)] \in Whitespace
    THEN rstrip(SubSeq(text, 1, Len(text) - 1))
    ELSE text

strip(text) == rstrip(lstrip(text))

\* the lookahead (?=\s*[A-Z][A-Z]) at text[from..]
followed_by_tag(text, from) ==
    LET rest == lstrip(Tail_from(text, from))
    IN  Len(rest) >= 2 /\ rest[1] \in UpperCase /\ rest[2] \in UpperCase

\* line 28: re.sub(r';(?=\s*[A-Z][A-Z])', ';\n', sgf_content)
RECURSIVE break_before_tags(_, _)
break_before_tags(text, i) ==
    IF i > Len(text) THEN <<>>
    ELSE IF text[i] = ";" /\ followed_by_tag(text, i + 1)
         THEN <<";", "\n">> \o break_before_tags(text, i + 1)
         ELSE <<text[i]>> \o break_before_tags(text, i + 1)

\* lines 28-29: the text the header and the moves are searched in
cleaned(sgf_content) ==
    strip(SelectSeq(break_before_tags(sgf_content, 1),
                    LAMBDA c : c \notin {"\n", "\r"}))

\* the tags _parse_header looks for, in the order of patterns
HeaderKeys == <<<<"G", "M">>, <<"F", "F">>, <<"C", "A">>, <<"S", "Z">>,
               <<"P", "B">>, <<"P", "W">>, <<"W", "R">>, <<"B", "R">>,
               <<"D", "T">>, <<"K", "M">>, <<"H", "A">>, <<"R", "E">>>>
SZ == <<"S", "Z">>

\* the places where key\[([^\]]+)\] matches: the key, "[", at least one
\* character other than "]", and a "]" before the text ends
tag_matches(key, text) ==
    {i \in 1..Len(text) :
        /\ i + 4 <= Len(text)
        /\ text[i] = key[1] /\ text[i + 1] = key[2] /\ text[i + 2] = "["
        /\ text[i + 3] # "]"
        /\ \E j \in (i + 4)..Len(text) : text[j] = "]"}

\* re.search(pattern, sgf_content).group(1) for the leftmost match, or None
tag_value(key, text) ==
    IF tag_matches(key, text) = {} THEN None
    ELSE LET i == CHOOSE m \in tag_matches(key, text) :
                      \A n \in tag_matches(key, text) : m <= n
             j == CHOOSE c \in (i + 4)..Len(text) :
                      /\ text[c] = "]"
                      /\ \A d \in (i + 4)..(c - 1) : text[d] # "]"
         IN  <<SubSeq(text, i + 3, j - 1)>>

\* the decimal value of a string of digits
RECURSIVE digits_value(_)
digits_value(digits) ==
    IF digits = <<>> THEN 0
    ELSE 10 * digits_value(SubSeq(digits, 1, Len(digits) - 1))
           + (CHOOSE d \in 1..10 : DigitChars[d] = digits[Len(digits)]) - 1

\* digits, with single underscores allowed between two digits
is_digits(body) ==
    /\ body # <<>>
    /\ \A i \in 1..Len(body) :
          \/ body[i] \in Range(DigitChars)
          \/ /\ body[i] = "_"
             /\ 1 < i /\ i < Len(body)
             /\ body[i - 1] \in Range(DigitChars)
             /\ body[i + 1] \in Range(DigitChars)

\* int(value): the integer, or None where int raises ValueError
int_value(value) ==
    LET stripped == strip(value)
        signed == stripped # <<>> /\ stripped[1] \in {"+", "-"}
        body == IF signed THEN Tail(stripped) ELSE stripped
        digits == SelectSeq(body, LAMBDA c : c # "_")
    IN  IF is_digits(body)
        THEN <<IF signed /\ stripped[1] = "-" THEN 0 - digits_value(digits)
               ELSE digits_value(digits)>>
        ELSE None

\* lines 65-75: the header dictionary
_parse_header(sgf_content) ==
    [key \in {k \in Range(HeaderKeys) : tag_value(k, sgf_content) # None}
        |-> tag_value(key, sgf_content)[1]]

\* lines 69-73: self.size after _parse_header
size_after_header(size, sgf_content) ==
    IF tag_value(SZ, sgf_content) = None THEN size
    ELSE IF int_value(tag_value(SZ, sgf_content)[1]) = None THEN default_size
    ELSE int_value(tag_value(SZ, sgf_content)[1])[1]

\* line 85: move_pattern = r'(B|W)\[([a-z]{2}|[])'
move_pattern == <<"(", "B", "|", "W", ")", "\\", "[", "(", "[", "a", "-", "z",
                  "]", "{", "2", "}", "|", "[", "]", ")">>

\* the end of the character set opened at pattern[open]: a "]" right after
\* the "[" (or after "[^") is a member of the set, not its end; 0 when the
\* pattern ends before the set is closed
set_end(pattern, open) ==
    LET first == IF open < Len(pattern) /\ pattern[open + 1] = "^"
                 THEN open + 2 ELSE open + 1
        ends == {j \in (first + 1)..Len(pattern) :
                    /\ pattern[j] = "]"
                    /\ pattern[j - 1] # "\\"}
    IN  IF ends = {} THEN 0 ELSE CHOOSE j \in ends : \A k \in ends : j <= k

\* what compiling the pattern raises: None, or the position (counted from
\* 0) of the character set that is never closed
RECURSIVE re_error(_, _)
re_error(pattern, i) ==
    IF i > Len(pattern) THEN None
    ELSE IF pattern[i] = "\\" THEN re_error(pattern, i + 2)
    ELSE IF pattern[i] = "["
         THEN IF set_end(pattern, i) = 0 THEN <<i - 1>>
              ELSE re_error(pattern, set_end(pattern, i) + 1)
    ELSE re_error(pattern, i + 1)

\* the coordinate with row and column taken from the wrong letters
decode_swapped(coord) ==
    <<ord_from_a(coord[1]), ord_from_a(coord[2])>>

\* lines 94-96: (row, col) of a two-letter match
decode(coord) ==
    <<ord_from_a(coord[2]), ord_from_a(coord[1])>>

\* lines 89-97, one round of the loop: the entries the match adds to moves
move_entries(move_num, color, coord) ==
    IF coord = <<"]">> \/ coord = <<"t", "t">>
    THEN <<<<move_num, color, None>>>>
    ELSE IF Len(coord) = 2
    THEN <<<<move_num, color, <<decode(coord)>>>>>>
    ELSE <<>>

\* lines 77-99.  re.findall compiles move_pattern before it reads the text:
\* with a pattern that does not compile it raises re.error whatever the
\* text is, and the loop of lines 88-97 is not reached.
_parse_moves(sgf_content) ==
    CASE re_error(move_pattern, 1) # None ->
            [raised |-> <<"re.error", re_error(move_pattern, 1)[1]>>,
             moves |-> <<>>]

\* lines 21-41: how a parse_sgf call on a parser of the given size ends
parse_sgf_outcome(size, sgf_content) ==
    LET content == cleaned(sgf_content)
        header_info == _parse_header(content)
        moves == _parse_moves(content)
    IN  [raised |-> moves.raised,
         returned |-> IF moves.raised # None THEN None
                      ELSE <<[header |-> header_info, moves |-> moves.moves,
                              size |-> size_after_header(size, content)]>>,
         size |-> size_after_header(size, content)]

\* the texts offered to parse_sgf
\* the game of the documentation: three moves, the last one a pass
ExampleGame ==
    <<";", "G", "M", "[", "1", "]", "F", "F", "[", "4", "]", "S", "Z", "[",
      "1", "9", "]", ";", "B", "[", "p", "d", "]", ";", "W", "[", "d", "p",
      "]", ";", "B", "[", "]">>

\* no text at all
EmptyText == <<>>

\* a 9x9 game
SmallBoardGame ==
    <<";", "S", "Z", "[", "9", "]", ";", "B", "[", "c", "c", "]">>

\* a size that is no integer, and the pass sentinel
BadSizeGame ==
    <<";", "S", "Z", "[", "x", "]", ";", "B", "[", "t", "t", "]">>

\* move tokens of three letters and of one letter
OddTokensGame ==
    <<";", "B", "[", "a", "b", "c", "]", ";", "W", "[", "a", "]">>

\* two moves of the same colour in a row
SameColourGame ==
    <<";", "B", "[", "a", "a", "]", ";", "B", "[", "b", "b", "]">>

\* a text cut off inside the size tag
TruncatedGame ==
    <<"(", ";", "G", "M", "[", "1", "]", "S", "Z", "[", "1", "3">>

\* a text of two lines
TwoLineGame ==
    <<";", "G", "M", "[", "1", "]", "\n", ";", "W", "[", "d", "p", "]">>

\* player names and a setup stone before the one move
PlayerNamesGame ==
    <<";", "P", "B", "[", "a", "b", "]", "P", "W", "[", "c", "d", "]",
      "A", "B", "[", "d", "d", "]", ";", "B", "[", "p", "d", "]">>

Texts == {ExampleGame, EmptyText, SmallBoardGame, BadSizeGame, OddTokensGame,
          SameColourGame, TruncatedGame, TwoLineGame, PlayerNamesGame}

\* the files on disk, and the paths load_from_file is asked for
Files == [filepath \in {"game.sgf", "small.sgf"} |->
             IF filepath = "game.sgf" THEN ExampleGame ELSE SmallBoardGame]
Paths == DOMAIN Files \cup {"missing.sgf"}

-----------------------------------------------------------------------------
(* GoBoard (board.py) and TWIntegratedSystem (integrated_system.py) *)

BoardSizes == {9, 13, 19}

\* GoBoard(size): lines 12-21 of board.py; the stones are the points that
\* are not '.', each with its colour
GoBoard(size) == [size |-> size, stones |-> {}]

\* the board the system starts with and navigate_game_history resets to
system_board_size == 19

occupied(b, row, col) == \E stone \in b.stones : stone[1] = row /\ stone[2] = col

\* GoBoard.place_stone with the test of the point being empty left out
place_stone_overwriting(b, row, col, color) ==
    IF ~(0 <= row /\ row < b.size /\ 0 <= col /\ col < b.size)
    THEN [success |-> FALSE, board |-> b]
    ELSE IF color \notin {"B", "W"}
    THEN [success |-> FALSE, board |-> b]
    ELSE [success |-> TRUE,
          board |-> [b EXCEPT !.stones =
                        {stone \in @ : ~(stone[1] = row /\ stone[2] = col)}
                            \cup {<<row, col, color>>}]]

\* GoBoard.place_stone: lines 23-41 of board.py
place_stone(b, row, col, color) ==
    IF ~(0 <= row /\ row < b.size /\ 0 <= col /\ col < b.size)
    THEN [success |-> FALSE, board |-> b]
    ELSE IF occupied(b, row, col)
    THEN [success |-> FALSE, board |-> b]
    ELSE IF color \notin {"B", "W"}
    THEN [success |-> FALSE, board |-> b]
    ELSE [success |-> TRUE,
          board |-> [b EXCEPT !.stones = @ \cup {<<row, col, color>>}]]

\* the characters from 'A' on in the order of their codes, and the lowercase
\* letters str.upper() changes
FromA == <<"A", "B", "C", "D", "E", "F", "G", "H", "I", "J", "K", "L", "M",
           "N", "O", "P", "Q", "R", "S", "T", "U", "V", "W", "X", "Y", "Z", "[">>
chr_from_A(n) == FromA[n + 1]
ord_from_A(c) == (CHOOSE i \in 1..Len(FromA) : FromA[i] = c) - 1
upper(c) ==
    IF c \in Range(LowerCase) THEN chr_from_A(ord_from_a(c)) ELSE c

\* str(n) of an int
str_of_int(n) == IF n < 0 THEN <<"-">> \o str_int(0 - n) ELSE str_int(n)

\* lines 592-599 with the letter 'I' not skipped
_coordinate_to_gtp_with_I(b, row, col) ==
    <<chr_from_A(col)>> \o str_of_int(b.size - row)

\* _coordinate_to_gtp, lines 592-599: the column letter followed by the row
\* number in decimal
_coordinate_to_gtp(b, row, col) ==
    <<chr_from_A(IF col >= 8 THEN col + 1 ELSE col)>> \o str_of_int(b.size - row)

\* _gtp_to_coordinate, lines 422-439: (-1, -1) for a text of less than two
\* characters and when int() raises ValueError
_gtp_to_coordinate(b, gtp_coord) ==
    IF Len(gtp_coord) < 2 THEN <<-1, -1>>
    ELSE LET col_char == upper(gtp_coord[1])
             row_part == int_value(Tail(gtp_coord))
             col == ord_from_A(col_char)
         IN  IF row_part = None THEN <<-1, -1>>
             ELSE <<b.size - row_part[1], IF col >= 8 THEN col - 1 ELSE col>>

\* 'W' if player == 'B' else 'B'
other_player(player) == IF player = "B" THEN "W" ELSE "B"

\* lines 580-583 with only the black stones put on the board again
RECURSIVE replay_black_only(_, _)
replay_black_only(b, history) ==
    IF history = <<>> THEN b
    ELSE LET rc == _gtp_to_coordinate(b, history[1][1])
         IN  replay_black_only(IF rc[1] # -1 /\ rc[2] # -1 /\ history[1][2] = "B"
                               THEN place_stone(b, rc[1], rc[2], history[1][2]).board
                               ELSE b,
                               Tail(history))

\* lines 580-583: the moves of the history put on the board again
RECURSIVE replay(_, _)
replay(b, history) ==
    IF history = <<>> THEN b
    ELSE LET rc == _gtp_to_coordinate(b, history[1][1])
         IN  replay(IF rc[1] # -1 /\ rc[2] # -1
                    THEN place_stone(b, rc[1], rc[2], history[1][2]).board
                    ELSE b,
                    Tail(history))

\* lines 539-545 of load_sgf: the moves of the game record put on the board
RECURSIVE apply_moves(_, _)
apply_moves(system, moves) ==
    IF moves = <<>> THEN system
    ELSE LET coords == moves[1][3]
             color == moves[1][2]
         IN  apply_moves(
                 IF coords = None THEN system
                 ELSE [system EXCEPT
                       !.board = place_stone(system.board, coords[1][1],
                                             coords[1][2], color).board,
                       !.game_history = Append(system.game_history,
                           <<_coordinate_to_gtp(system.board, coords[1][1],
                                                coords[1][2]), color>>),
                       !.current_player = other_player(color)],
                 Tail(moves))

\* lines 548-551 with the board and the history reset before the parser ran
failed_load_after_reset(system, outcome) ==
    [system EXCEPT !.sgf_parser = <<outcome.size>>,
                   !.board = GoBoard(system_board_size),
                   !.game_history = <<>>, !.current_player = "B"]

\* lines 527-531 and 548-551 of load_sgf: the call fails before line 534; the
\* system keeps the new parser and nothing else
failed_load(system, outcome) ==
    [system EXCEPT !.sgf_parser = <<outcome.size>>]

\* the fields of the system a call can change
TheSystem ==
    [board |-> board, game_history |-> game_history,
     current_player |-> current_player,
     current_sgf_path |-> current_sgf_path, sgf_parser |-> sgf_parser]

Min(a, b) == IF a <= b THEN a ELSE b

-----------------------------------------------------------------------------
(* PerformanceOptimizer.optimize_with_cache (performance_optimizer.py) *)

\* line 79: the size above which result_cache is trimmed
cache_limit == 1000

\* An argument x is an int or a float of integral value, [kind, n].
\* str(x): a float prints with its fraction, 1.0
str_value(x) ==
    IF x.kind = "float" THEN str_int(x.n) \o <<".", "0">> ELSE str_int(x.n)

\* x == y in Python: the int 1 and the float 1.0 are equal
python_equal(x, y) == x.n = y.n

\* str(args) + str(kwargs) of the call f(x): "(x,)" followed by "{}"
str_args(x) == <<"(">> \o str_value(x) \o <<",", ")", "{", "}">>

\* line 51: f"{cache_key}:{hash(str(args) + str(kwargs))}".  hash() is taken
\* as one-to-one on the texts of the calls offered.
full_key(cache_key, x) == <<cache_key, str_args(x)>>

\* line 50: "if cache_key" - None and the empty string switch the cache off
truthy(cache_key) == cache_key # ""

\* the wrapped function: its result tells which execution produced it
func(x, serial) == [of |-> x, run |-> serial]

\* full_key in self.result_cache, and self.result_cache[full_key]
in_cache(cache, key) == \E i \in 1..Len(cache) : cache[i].key = key
cached(cache, key) == cache[CHOOSE i \in 1..Len(cache) : cache[i].key = key].value

\* line 77: self.result_cache[full_key] = result.  A dict keeps a key at the
\* place of its first insertion.
dict_set(cache, key, value) ==
    IF in_cache(cache, key)
    THEN [i \in 1..Len(cache) |-> IF cache[i].key = key THEN [key |-> key, value |-> value] ELSE cache[i]]
    ELSE Append(cache, [key |-> key, value |-> value])

\* lines 79-83 with the first half kept instead of the second
trim_keeping_the_oldest(cache) ==
    IF Len(cache) > cache_limit
    THEN SubSeq(cache, 1, Len(cache) - Len(cache) \div 2)
    ELSE cache

\* lines 79-83: above the limit, delete keys[:len(keys)//2]
trim(cache) ==
    IF Len(cache) > cache_limit
    THEN SubSeq(cache, Len(cache) \div 2 + 1, Len(cache))
    ELSE cache

keys_of(cache) == {cache[i].key : i \in 1..Len(cache)}

\* The optimizer as the wrapper sees it: o.result_cache, o.stats and the
\* histories.  wrapper(o, cache_key, x) is one call f(x) of a function
\* wrapped with optimize_with_cache(cache_key), lines 48-85: the optimizer
\* after the call, the value returned and the counters before the call.
\* The look-up and the insertion with its trimming each run under
\* cache_lock.  avg_processing_time is not modelled.
hit(o, cache_key, x) == truthy(cache_key) /\ in_cache(o.result_cache, full_key(cache_key, x))

\* lines 53-55 with the function executed again on a hit
wrapper_hit_executing(o, cache_key, x) ==
    [o EXCEPT !.stats.cache_hits = o.stats.cache_hits + 1,
              !.executions = o.executions + 1,
              !.returned = func(x, o.executions + 1),
              !.executed = TRUE]

\* lines 53-55: the look-up finds the key
wrapper_hit(o, cache_key, x) ==
    [o EXCEPT !.stats.cache_hits = o.stats.cache_hits + 1,
              !.returned = cached(o.result_cache, full_key(cache_key, x)),
              !.executed = FALSE]

\* lines 57-85: no cache key, or the look-up does not find the key
wrapper_miss(o, cache_key, x) ==
    LET result == func(x, o.executions + 1)
        inserted == dict_set(o.result_cache, full_key(cache_key, x), result)
        after == IF truthy(cache_key) THEN trim(inserted) ELSE o.result_cache
    IN  [o EXCEPT !.executions = o.executions + 1,
                  !.stats.tasks_processed = o.stats.tasks_processed + 1,
                  !.stats.cache_misses = o.stats.cache_misses + (IF truthy(cache_key) THEN 1 ELSE 0),
                  !.result_cache = after,
                  !.dropped = IF ~truthy(cache_key) THEN o.dropped
                              ELSE IF after = inserted THEN o.dropped \ {full_key(cache_key, x)}
                              ELSE (o.dropped \cup keys_of(inserted)) \ keys_of(after),
                  !.returned = result,
                  !.executed = TRUE]

wrapper(o, cache_key, x) ==
    LET done == IF hit(o, cache_key, x) THEN wrapper_hit(o, cache_key, x) ELSE wrapper_miss(o, cache_key, x)
    IN  [done EXCEPT !.completed_calls = o.completed_calls \cup {[args |-> x, cache_key |-> cache_key, returned |-> done.returned]}]

\* for i in range(first, first + n): f(i).  The n calls in their order, as
\* the first half of them followed by the second half.
RECURSIVE calls_in_a_loop(_, _, _, _)
calls_in_a_loop(o, cache_key, first, n) ==
    IF n = 0 THEN o
    ELSE IF n = 1 THEN wrapper(o, cache_key, [kind |-> "int", n |-> first])
    ELSE LET half == calls_in_a_loop(o, cache_key, first, n \div 2)
         IN  IF half.executions >= o.executions
             THEN calls_in_a_loop(half, cache_key, first + n \div 2, n - n \div 2)
             ELSE half

\* a new PerformanceOptimizer, lines 24-36
PerformanceOptimizer ==
    [result_cache |-> <<>>,
     stats |-> [tasks_processed |-> 0, cache_hits |-> 0, cache_misses |-> 0],
     executions |-> 0, completed_calls |-> {}, dropped |-> {},
     returned |-> None, executed |-> FALSE]

-----------------------------------------------------------------------------
(* TWIntegratedSystem: the analysis thread and its two queues *)

\* the threads that call analyze_position_for_interface, and the board
\* states they ask about
Callers == {"gui", "replay"}
Positions == {"opening", "corner_fight"}

\* line 446: f"req_{int(time.time())}_{hash(str(board_state)) % 10000}".  All
\* calls fall into one second, and the board states offered have different
\* hashes modulo 10000.
request_id(board_state) == <<"req", 0, board_state>>

\* _perform_analysis, lines 81-124: the analysis of the position asked about
_perform_analysis(position_data) == <<"analysis", position_data>>

\* _get_default_analysis_result, lines 472-488
_get_default_analysis_result == <<"waiting for analysis">>

-----------------------------------------------------------------------------
(* TeachingModule and InteractiveTeachingMode (teaching_module.py) *)

Students == {"test_student", "other_student"}

\* _load_default_curriculum, lines 116-194: the rows of table lessons
Lessons ==
    {[lesson_id |-> "basic_001", category |-> "basic", difficulty |-> 1, prerequisites |-> {}],
     [lesson_id |-> "basic_002", category |-> "basic", difficulty |-> 2, prerequisites |-> {"basic_001"}],
     [lesson_id |-> "basic_003", category |-> "basic", difficulty |-> 3, prerequisites |-> {"basic_002"}]}
LessonIds == {lesson.lesson_id : lesson \in Lessons}

\* ORDER BY difficulty
RECURSIVE by_difficulty(_)
by_difficulty(rows) ==
    IF rows = {} THEN <<>>
    ELSE LET first == CHOOSE r \in rows : \A q \in rows : r.difficulty <= q.difficulty
         IN  <<first>> \o by_difficulty(rows \ {first})

\* get_lessons_by_category, lines 247-275
get_lessons_by_category(category) ==
    by_difficulty({lesson \in Lessons : lesson.category = category})

\* get_student_completed_lessons, lines 381-394
get_student_completed_lessons(progress, student) ==
    {l \in LessonIds : progress[student][l] = "completed"}

\* lines 396-412 with a lesson offered whether it is completed or not
next_lesson_even_if_completed(progress, student) ==
    LET completed == get_student_completed_lessons(progress, student)
        basic_lessons == get_lessons_by_category("basic")
        open == {i \in 1..Len(basic_lessons) : basic_lessons[i].prerequisites \subseteq completed}
    IN  IF open = {} THEN None
        ELSE <<basic_lessons[CHOOSE i \in open : \A j \in open : i <= j]>>

\* get_next_lesson_for_student, lines 396-412: the first basic lesson, by
\* difficulty, that is not completed and whose prerequisites all are
get_next_lesson_for_student(progress, student) ==
    LET completed == get_student_completed_lessons(progress, student)
        basic_lessons == get_lessons_by_category("basic")
        open == {i \in 1..Len(basic_lessons) :
                    /\ basic_lessons[i].prerequisites \subseteq completed
                    /\ basic_lessons[i].lesson_id \notin completed}
    IN  IF open = {} THEN None
        ELSE <<basic_lessons[CHOOSE i \in open : \A j \in open : i <= j]>>

\* update_student_progress, lines 331-353: INSERT OR REPLACE of the row of
\* the student and the lesson
update_student_progress(progress, student, lesson_id, status) ==
    [progress EXCEPT ![student][lesson_id] = status]

-----------------------------------------------------------------------------
(* Sequential use: every call runs to completion before the next starts *)

Init ==
    /\ db = <<>>
    /\ clock = 0
    /\ leaked = FALSE
    /\ milestones = [k \in Range(MilestoneKeys) |-> FALSE]
    /\ calls = <<>>
    /\ reported = [u \in Users |-> [k \in Range(MilestoneKeys) |-> <<>>]]
    /\ last_check = None
    /\ rating_trials = <<>>
    /\ strength_trials = <<>>
    /\ pc = [t \in Threads |-> "idle"]
    /\ frame = [t \in Threads |-> None]
    /\ parser_size = default_size
    /\ parses = <<>>
    /\ decodes = <<>>
    /\ board = GoBoard(system_board_size)
    /\ game_history = <<>>
    /\ current_player = "B"
    /\ current_sgf_path = None
    /\ sgf_parser = None
    /\ gtp_trials = <<>>
    /\ system_calls = <<>>
    /\ result_cache = PerformanceOptimizer.result_cache
    /\ stats = PerformanceOptimizer.stats
    /\ executions = 0
    /\ completed_calls = {}
    /\ dropped = {}
    /\ cache_use = [calls |-> 0, loops |-> 0, clears |-> 0]
    /\ last_cache_call = None
    /\ analysis_queue = <<>>
    /\ result_queue = <<>>
    /\ caller = [t \in Callers |-> [pc |-> "idle", request |-> None, calls |-> 0]]
    /\ worker = None
    /\ analysis_calls = <<>>
    /\ discarded = <<>>
    /\ is_running = FALSE
    /\ learning_thread = None
    /\ loops = <<>>
    /\ learning_log = <<>>
    /\ learning_use = 0
    /\ student_progress = [s \in Students |-> [l \in LessonIds |-> "no row"]]
    /\ student_id = None
    /\ current_lesson = None
    /\ given = [s \in Students |-> <<>>]
    /\ ever_completed = [s \in Students |-> {}]
    /\ last_session = None
    /\ task_queue = <<>>
    /\ unfinished_tasks = 0
    /\ processor_result_queue = <<>>
    /\ shutdown_event = FALSE
    /\ workers = <<>>
    /\ processor_stats = [processed_count |-> 0, error_count |-> 0, active_threads |-> 0]
    /\ processor_use = [submitted |-> 0, shutdown |-> "not called"]

\* time passes
Tick ==
    /\ clock < MaxClock
    /\ clock' = clock + 1
    /\ UNCHANGED <<sgf_vars, system_vars, service_vars>>
    /\ UNCHANGED <<db, leaked, milestones, calls, reported, last_check,
                   rating_trials, strength_trials, pc, frame>>

\* the garbage collector closes a connection left open by a failed INSERT
collect_garbage ==
    /\ leaked
    /\ leaked' = FALSE
    /\ UNCHANGED <<sgf_vars, system_vars, service_vars>>
    /\ UNCHANGED <<db, clock, milestones, calls, reported, last_check,
                   rating_trials, strength_trials, pc, frame>>

\* One whole call of record_game_result; its clock readings fall in one tick,
\* and the commit of a stored record takes one more.
record_game_result(user_id, opponent_rating, game_result) ==
    /\ \E last_record \in get_latest_record(user_id) :
       \E rated \in {calculate_new_rating(old_rating_of(last_record),
                         opponent_rating, game_result,
                         games_played_of(last_record))} :
       \E record \in {new_record(user_id, opponent_rating, game_result,
                          last_record, rated,
                          get_recent_records(user_id, recent_days, clock),
                          clock, clock)} :
       \E outcome \in {IF rated.error # "" THEN rated.error
                       ELSE save_outcome(record)} :
         /\ outcome = "ok" => clock < MaxClock
         /\ calls' = Append(calls,
                CallEntry(user_id, opponent_rating, game_result,
                          last_record, rated, outcome, record.record_id,
                          Len(RowsOf(user_id)), Len(RowsOf(user_id))))
         /\ db' = IF outcome = "ok" THEN Append(db, record) ELSE db
         /\ leaked' = (leaked \/ outcome = "IntegrityError")
         /\ clock' = IF outcome = "ok" THEN clock + 1 ELSE clock
    /\ UNCHANGED <<sgf_vars, system_vars, service_vars>>
    /\ UNCHANGED <<milestones, reported, last_check, rating_trials,
                   strength_trials, pc, frame>>

\* One whole call of check_milestones: the keys it returns, in order.
check_milestones(user_id) ==
    /\ \E latest \in get_latest_record(user_id) :
       \E summary \in {get_progress_summary(user_id, latest, clock)} :
       \E met \in {{k \in Range(MilestoneKeys) :
                       milestone_met(k, summary, latest)}} :
       \E new_milestones \in
              {SelectSeq(MilestoneKeys,
                         LAMBDA k : newly_achieved(k \in met, milestones[k]))} :
       \E returned \in {Range(new_milestones)} :
         /\ milestones' = [k \in DOMAIN milestones |->
                              milestones[k] \/ k \in returned]
         /\ reported' = [reported EXCEPT ![user_id] =
                [k \in DOMAIN @ |->
                    IF k \in returned THEN Append(@[k], summary.total_games)
                    ELSE @[k]]]
         /\ last_check' = <<[n |-> NumChecks + 1, user_id |-> user_id,
                             summary |-> summary, met |-> met,
                             new_milestones |-> new_milestones]>>
    /\ UNCHANGED <<sgf_vars, system_vars, service_vars>>
    /\ UNCHANGED <<db, clock, leaked, calls, rating_trials, strength_trials,
                   pc, frame>>

Next ==
    \/ Tick
    \/ collect_garbage
    \/ \E u \in Users, o \in OppRatings, g \in Results :
           Len(calls) < MaxCalls /\ record_game_result(u, o, g)

Spec == Init /\ [][Next]_vars

-----------------------------------------------------------------------------
(* Sequential use with a MilestoneManager on the tracker *)

\* opponent ratings and results offered in a run with milestones
MilestoneOpps == {1900 * Unit}
MilestoneResults == {LOSS, WIN}

NextMilestones ==
    \/ Tick
    \/ collect_garbage
    \/ \E u \in Users, o \in MilestoneOpps, g \in MilestoneResults :
           Len(calls) < MaxGames /\ record_game_result(u, o, g)
    \/ \E u \in Users :
           NumChecks < MaxChecks /\ check_milestones(u)

SpecMilestones == Init /\ [][NextMilestones]_vars

-----------------------------------------------------------------------------
(* RatingCalculator called directly *)

\* arguments offered to calculate_new_rating
TrialRatings == {100 * Unit, 130 * Unit, 1500 * Unit, 3590 * Unit}
TrialOpps == {-3000 * Unit, 1500 * Unit, 1900 * Unit, 200000 * Unit}
TrialGames == {0, 1, 399, 400, 401, 1000}

\* the thresholds of estimate_strength, ascending
Thresholds == <<300, 600, 900, 1200, 1500, 1800, 2100, 2400, 2700, 3000,
                3300, 3600>>

\* arguments offered to estimate_strength: each threshold, the rating just
\* below it, and one rating beyond each end
TrialStrengths ==
    {Thresholds[i] * Unit - 1 : i \in 1..Len(Thresholds)}
        \cup {Thresholds[i] * Unit : i \in 1..Len(Thresholds)}
        \cup {100 * Unit, 4000 * Unit}

RatingTrial(old_rating, opponent_rating, game_result, games_played, via) ==
    [old_rating |-> old_rating, opponent_rating |-> opponent_rating,
     game_result |-> game_result, games_played |-> games_played, via |-> via,
     out |-> calculate_new_rating(old_rating, opponent_rating, game_result,
                                  games_played)]

\* calculate_new_rating on arguments of the caller's choice
try_calculate_new_rating(old_rating, opponent_rating, game_result, games_played) ==
    /\ rating_trials = <<>>
    /\ strength_trials = <<>>
    /\ rating_trials' = <<RatingTrial(old_rating, opponent_rating, game_result,
                                      games_played, "direct")>>
    /\ UNCHANGED <<sgf_vars, system_vars, service_vars>>
    /\ UNCHANGED <<db, clock, leaked, milestones, calls, reported, last_check,
                   strength_trials, pc, frame>>

\* the same call again with another games_played
try_other_games_played(games_played) ==
    /\ Len(rating_trials) = 1
    /\ rating_trials' = Append(rating_trials,
           RatingTrial(rating_trials[1].old_rating,
                       rating_trials[1].opponent_rating,
                       rating_trials[1].game_result, games_played,
                       "other_games_played"))
    /\ UNCHANGED <<sgf_vars, system_vars, service_vars>>
    /\ UNCHANGED <<db, clock, leaked, milestones, calls, reported, last_check,
                   strength_trials, pc, frame>>

\* the next game: the rating returned is the next old_rating and one more
\* game has been played, as in record_game_result
try_next_game(opponent_rating, game_result) ==
    /\ rating_trials # <<>>
    /\ Len(rating_trials) < MaxTrials
    /\ LET last == rating_trials[Len(rating_trials)]
       IN  /\ last.via # "other_games_played"
           /\ last.out.error = ""
           /\ rating_trials' = Append(rating_trials,
                  RatingTrial(last.out.new_rating, opponent_rating,
                              game_result, last.games_played + 1, "next_game"))
    /\ UNCHANGED <<sgf_vars, system_vars, service_vars>>
    /\ UNCHANGED <<db, clock, leaked, milestones, calls, reported, last_check,
                   strength_trials, pc, frame>>

\* estimate_strength on a rating of the caller's choice
try_estimate_strength(rating) ==
    /\ rating_trials = <<>>
    /\ Len(strength_trials) < 2
    /\ strength_trials' = Append(strength_trials,
           [rating |-> rating, rank |-> estimate_strength(rating)])
    /\ UNCHANGED <<sgf_vars, system_vars, service_vars>>
    /\ UNCHANGED <<db, clock, leaked, milestones, calls, reported, last_check,
                   rating_trials, pc, frame>>

NextCalc ==
    \/ \E r \in TrialRatings, o \in TrialOpps, g \in Results, n \in TrialGames :
           try_calculate_new_rating(r, o, g, n)
    \/ \E n \in TrialGames : try_other_games_played(n)
    \/ \E o \in TrialOpps, g \in Results : try_next_game(o, g)
    \/ \E r \in TrialStrengths : try_estimate_strength(r)

SpecCalc == Init /\ [][NextCalc]_vars

-----------------------------------------------------------------------------
(* Two threads calling record_game_result on one tracker.  A call is a       *)
(* sequence of steps: each query and each clock reading is one step, and     *)
(* the steps of the two threads interleave.                                  *)

\* opponent ratings and results offered in a run with two threads
ThreadOpps == {1500 * Unit}
ThreadResults == {LOSS, WIN}

\* calls begun so far
CallsBegun == Len(calls) + Cardinality({t \in Threads : pc[t] # "idle"})

\* line 129 to 153: fetch the latest record and compute the rating update
begin_call(t, user_id, opponent_rating, game_result) ==
    /\ pc[t] = "idle"
    /\ CallsBegun < MaxThreadCalls
    /\ \E last_record \in get_latest_record(user_id) :
       \E rated \in {calculate_new_rating(old_rating_of(last_record),
                         opponent_rating, game_result,
                         games_played_of(last_record))} :
         IF rated.error # ""
         THEN /\ calls' = Append(calls,
                     CallEntry(user_id, opponent_rating, game_result,
                               last_record, rated, rated.error,
                               record_id_of(user_id, clock),
                               Len(RowsOf(user_id)), Len(RowsOf(user_id))))
              /\ UNCHANGED <<pc, frame>>
         ELSE /\ frame' = [frame EXCEPT ![t] =
                     <<[user_id |-> user_id,
                        opponent_rating |-> opponent_rating,
                        game_result |-> game_result,
                        last_record |-> last_record,
                        rows_at_read |-> Len(RowsOf(user_id)),
                        rated |-> rated,
                        recent_records |-> <<>>,
                        id_time |-> 0,
                        stamp_time |-> 0]>>]
              /\ pc' = [pc EXCEPT ![t] = "fetched"]
              /\ UNCHANGED calls
    /\ UNCHANGED <<sgf_vars, system_vars, service_vars>>
    /\ UNCHANGED <<db, clock, leaked, milestones, reported, last_check,
                   rating_trials, strength_trials>>

\* line 155: _calculate_improvement_score queries the recent records
query_recent(t) ==
    /\ pc[t] = "fetched"
    /\ frame' = [frame EXCEPT ![t] =
           <<[frame[t][1] EXCEPT !.recent_records =
                 get_recent_records(frame[t][1].user_id, recent_days, clock)]>>]
    /\ pc' = [pc EXCEPT ![t] = "scored"]
    /\ UNCHANGED <<sgf_vars, system_vars, service_vars>>
    /\ UNCHANGED <<db, clock, leaked, milestones, calls, reported, last_check,
                   rating_trials, strength_trials>>

\* line 159: the clock reading of record_id
read_id_time(t) ==
    /\ pc[t] = "scored"
    /\ frame' = [frame EXCEPT ![t] = <<[frame[t][1] EXCEPT !.id_time = clock]>>]
    /\ pc' = [pc EXCEPT ![t] = "named"]
    /\ UNCHANGED <<sgf_vars, system_vars, service_vars>>
    /\ UNCHANGED <<db, clock, leaked, milestones, calls, reported, last_check,
                   rating_trials, strength_trials>>

\* line 161: the clock reading of timestamp
read_stamp_time(t) ==
    /\ pc[t] = "named"
    /\ frame' = [frame EXCEPT ![t] = <<[frame[t][1] EXCEPT !.stamp_time = clock]>>]
    /\ pc' = [pc EXCEPT ![t] = "stamped"]
    /\ UNCHANGED <<sgf_vars, system_vars, service_vars>>
    /\ UNCHANGED <<db, clock, leaked, milestones, calls, reported, last_check,
                   rating_trials, strength_trials>>

\* line 173: save_progress_record, and the call returns or raises
save_record(t) ==
    /\ pc[t] = "stamped"
    /\ \E f \in {frame[t][1]} :
       \E record \in {new_record(f.user_id, f.opponent_rating, f.game_result,
                          f.last_record, f.rated, f.recent_records,
                          f.id_time, f.stamp_time)} :
       \E outcome \in {save_outcome(record)} :
         /\ outcome = "ok" => clock < MaxClock
         /\ calls' = Append(calls,
                CallEntry(f.user_id, f.opponent_rating, f.game_result,
                          f.last_record, f.rated, outcome, record.record_id,
                          f.rows_at_read, Len(RowsOf(f.user_id))))
         /\ db' = IF outcome = "ok" THEN Append(db, record) ELSE db
         /\ leaked' = (leaked \/ outcome = "IntegrityError")
         /\ clock' = IF outcome = "ok" THEN clock + 1 ELSE clock
    /\ pc' = [pc EXCEPT ![t] = "idle"]
    /\ frame' = [frame EXCEPT ![t] = None]
    /\ UNCHANGED <<sgf_vars, system_vars, service_vars>>
    /\ UNCHANGED <<milestones, reported, last_check, rating_trials,
                   strength_trials>>

NextThreads ==
    \/ Tick
    \/ collect_garbage
    \/ \E t \in Threads, u \in Users, o \in ThreadOpps, g \in ThreadResults :
           begin_call(t, u, o, g)
    \/ \E t \in Threads : query_recent(t)
    \/ \E t \in Threads : read_id_time(t)
    \/ \E t \in Threads : read_stamp_time(t)
    \/ \E t \in Threads : save_record(t)

SpecThreads == Init /\ [][NextThreads]_vars

-----------------------------------------------------------------------------
(* One SGFParser instance, parsing one text after another; and the loop    *)
(* body of _parse_moves evaluated directly                                 *)

\* What the log keeps of one call: its argument, self.size before and after
\* it, what it raised and what it returned.
ParseEntry(call, argument, text, outcome, size_before) ==
    [call |-> call, argument |-> argument, text |-> text,
     size_before |-> size_before, raised |-> outcome.raised,
     returned |-> outcome.returned, size_after |-> outcome.size]

\* SGFParser(): lines 16-19
new_parser ==
    /\ parses # <<>>
    /\ decodes = <<>>
    /\ parser_size' = default_size
    /\ UNCHANGED <<parses, decodes>>
    /\ UNCHANGED <<db, clock, leaked, milestones, calls, reported, last_check,
                   rating_trials, strength_trials, pc, frame, system_vars, service_vars>>

\* parser.parse_sgf(sgf_content)
parse_sgf(sgf_content) ==
    /\ decodes = <<>>
    /\ Len(parses) < MaxParses
    /\ \E outcome \in {parse_sgf_outcome(parser_size, sgf_content)} :
         /\ parser_size' = outcome.size
         /\ parses' = Append(parses,
                ParseEntry("parse_sgf", sgf_content, <<sgf_content>>, outcome,
                           parser_size))
    /\ UNCHANGED decodes
    /\ UNCHANGED <<db, clock, leaked, milestones, calls, reported, last_check,
                   rating_trials, strength_trials, pc, frame, system_vars, service_vars>>

\* parser.load_from_file(filepath): lines 101-107
load_from_file(filepath) ==
    /\ decodes = <<>>
    /\ Len(parses) < MaxParses
    /\ \E outcome \in
           {IF filepath \in DOMAIN Files
            THEN parse_sgf_outcome(parser_size, Files[filepath])
            ELSE [raised |-> <<"FileNotFoundError", 0>>, returned |-> None,
                  size |-> parser_size]} :
         /\ parser_size' = outcome.size
         /\ parses' = Append(parses,
                ParseEntry("load_from_file", filepath,
                           IF filepath \in DOMAIN Files
                           THEN <<Files[filepath]>> ELSE None,
                           outcome, parser_size))
    /\ UNCHANGED decodes
    /\ UNCHANGED <<db, clock, leaked, milestones, calls, reported, last_check,
                   rating_trials, strength_trials, pc, frame, system_vars, service_vars>>

\* the matches offered to the loop body: every two-letter coordinate of the
\* 19x19 board, the pass sentinel and the "]" of an empty bracket
BoardLetters == SubSeq(LowerCase, 1, default_size)
TrialCoords ==
    {<<BoardLetters[i], BoardLetters[j]>> : i, j \in 1..Len(BoardLetters)}
        \cup {<<"t", "t">>, <<"]">>}

\* one round of the loop of _parse_moves on a match of the caller's choice
try_move_entries(coord) ==
    /\ parses = <<>>
    /\ Len(decodes) < 2
    /\ decodes' = Append(decodes,
           [coord |-> coord, entries |-> move_entries(1, "B", coord)])
    /\ UNCHANGED <<parser_size, parses>>
    /\ UNCHANGED <<db, clock, leaked, milestones, calls, reported, last_check,
                   rating_trials, strength_trials, pc, frame, system_vars, service_vars>>

NextSGF ==
    \/ new_parser
    \/ \E sgf_content \in Texts : parse_sgf(sgf_content)
    \/ \E filepath \in Paths : load_from_file(filepath)
    \/ \E coord \in TrialCoords : try_move_entries(coord)

SpecSGF == Init /\ [][NextSGF]_vars

-----------------------------------------------------------------------------
(* One TWIntegratedSystem: stones placed, game records loaded and the       *)
(* history navigated, one call after another                                *)

\* What the log keeps of one call: its arguments, the system before and
\* after it, and what it returned.
SystemEntry(call, arguments, after, returned) ==
    [call |-> call, arguments |-> arguments, before |-> TheSystem,
     after |-> after, returned |-> returned]

\* place_stone_and_analyze(row, col, player): lines 490-519; player is None
\* when the caller leaves it out.  The analysis returned with True is the
\* worker thread's answer or the default one; it changes nothing here.
place_stone_and_analyze(row, col, player) ==
    /\ Len(system_calls) < MaxSystemCalls
    /\ \E p \in {IF player = None THEN current_player ELSE player[1]} :
       \E placed \in {place_stone(board, row, col, p)} :
       \E after \in
           {IF placed.success
            THEN [TheSystem EXCEPT
                  !.board = placed.board,
                  !.game_history = Append(game_history,
                      <<_coordinate_to_gtp(board, row, col), p>>),
                  !.current_player = other_player(p)]
            ELSE TheSystem} :
         /\ board' = after.board
         /\ game_history' = after.game_history
         /\ current_player' = after.current_player
         /\ UNCHANGED <<current_sgf_path, sgf_parser, gtp_trials>>
         /\ system_calls' = Append(system_calls,
                SystemEntry("place_stone_and_analyze", <<row, col, player>>,
                            after,
                            IF placed.success THEN <<TRUE, "analysis">>
                            ELSE <<FALSE, "invalid move">>))
    /\ UNCHANGED <<db, clock, leaked, milestones, calls, reported, last_check,
                   rating_trials, strength_trials, pc, frame, sgf_vars, service_vars>>

\* load_sgf(sgf_path): lines 521-552.  The parser is a new SGFParser, kept
\* in self.sgf_parser also when the call fails; every exception of the parser
\* or of GoBoard is caught and reported as False.
load_sgf(sgf_path) ==
    /\ Len(system_calls) < MaxSystemCalls
    /\ \E outcome \in
           {IF sgf_path \in DOMAIN Files
            THEN parse_sgf_outcome(default_size, Files[sgf_path])
            ELSE [raised |-> <<"FileNotFoundError", 0>>, returned |-> None,
                  size |-> default_size]} :
       \E loaded \in
           {outcome.raised = None /\ outcome.returned[1].size \in BoardSizes} :
       \E after \in
           {IF loaded
            THEN [apply_moves([TheSystem EXCEPT
                                  !.board = GoBoard(outcome.returned[1].size),
                                  !.game_history = <<>>,
                                  !.current_player = "B"],
                              outcome.returned[1].moves)
                  EXCEPT !.current_sgf_path = <<sgf_path>>,
                         !.sgf_parser = <<outcome.size>>]
            ELSE failed_load(TheSystem, outcome)} :
         /\ board' = after.board
         /\ game_history' = after.game_history
         /\ current_player' = after.current_player
         /\ current_sgf_path' = after.current_sgf_path
         /\ sgf_parser' = after.sgf_parser
         /\ UNCHANGED gtp_trials
         /\ system_calls' = Append(system_calls,
                SystemEntry("load_sgf", <<sgf_path>>, after,
                            <<loaded, IF loaded THEN "loaded"
                                      ELSE "failed to load">>))
    /\ UNCHANGED <<db, clock, leaked, milestones, calls, reported, last_check,
                   rating_trials, strength_trials, pc, frame, sgf_vars, service_vars>>

\* navigate_game_history(step): lines 567-590
navigate_game_history(step) ==
    /\ Len(system_calls) < MaxSystemCalls
    /\ \E target_index \in
           {Max(0, Min(Len(game_history) + step, Len(game_history)))} :
       \E history \in {SubSeq(game_history, 1, target_index)} :
       \E after \in
           {[TheSystem EXCEPT
             !.board = replay(GoBoard(system_board_size), history),
             !.game_history = history,
             !.current_player =
                 IF history # <<>>
                 THEN other_player(history[Len(history)][2])
                 ELSE "B"]} :
         /\ board' = after.board
         /\ game_history' = after.game_history
         /\ current_player' = after.current_player
         /\ UNCHANGED <<current_sgf_path, sgf_parser, gtp_trials>>
         /\ system_calls' = Append(system_calls,
                SystemEntry("navigate_game_history", <<step>>, after,
                            <<target_index, Len(history)>>))
    /\ UNCHANGED <<db, clock, leaked, milestones, calls, reported, last_check,
                   rating_trials, strength_trials, pc, frame, sgf_vars, service_vars>>

\* the points, players and steps offered: points inside the board, on its
\* edges and just outside it; a player that is no colour, and no player
PointsOffered == {<<3, 3>>, <<0, 0>>, <<18, 18>>, <<-1, 0>>, <<0, 19>>}
PlayersOffered == {<<"B">>, <<"W">>, <<"X">>, None}
StepsOffered == {-2, -1, 1, 2}

NextSystem ==
    \/ \E point \in PointsOffered, player \in PlayersOffered :
           place_stone_and_analyze(point[1], point[2], player)
    \/ \E sgf_path \in Paths : load_sgf(sgf_path)
    \/ \E step \in StepsOffered : navigate_game_history(step)

SpecSystem == Init /\ [][NextSystem]_vars

\* _coordinate_to_gtp on a point of the 19x19 board and _gtp_to_coordinate on
\* its result, for one point and then for another
try_gtp_round_trip(row, col) ==
    /\ system_calls = <<>>
    /\ Len(gtp_trials) < 2
    /\ \E gtp \in {_coordinate_to_gtp(board, row, col)} :
           gtp_trials' = Append(gtp_trials,
               [point |-> <<row, col>>, gtp |-> gtp,
                back |-> _gtp_to_coordinate(board, gtp)])
    /\ UNCHANGED <<board, game_history, current_player, current_sgf_path, sgf_parser, system_calls>>
    /\ UNCHANGED <<tracker_vars, sgf_vars, service_vars>>

NextGTP ==
    \E row \in 0..(system_board_size - 1), col \in 0..(system_board_size - 1) :
        try_gtp_round_trip(row, col)

SpecGTP == Init /\ [][NextGTP]_vars

-----------------------------------------------------------------------------
(* PerformanceOptimizer: calls of a function wrapped with optimize_with_cache *)

\* optimize_with_cache(cache_key="test_cache") and optimize_with_cache()
CacheKeys == {"test_cache"}
NoCacheKeys == {""}

TheOptimizer ==
    [PerformanceOptimizer EXCEPT !.result_cache = result_cache, !.stats = stats,
        !.executions = executions, !.completed_calls = completed_calls, !.dropped = dropped]

\* the arguments offered to a single call: 1, 1.0, the serial of the latest
\* execution and a number never passed before
ArgsOffered ==
    {[kind |-> "int", n |-> 1], [kind |-> "float", n |-> 1],
     [kind |-> "int", n |-> executions], [kind |-> "int", n |-> executions + 1]}

UncachedArgsOffered == {[kind |-> "int", n |-> 1]}

\* the values returned by the earlier completed calls of f with arguments
\* equal to x, and by those whose arguments print as x
earlier_equal(o, cache_key, x) ==
    {c.returned : c \in {d \in o.completed_calls : d.cache_key = cache_key /\ python_equal(d.args, x)}}

earlier_same_text(o, cache_key, x) ==
    {c.returned : c \in {d \in o.completed_calls : d.cache_key = cache_key /\ str_args(d.args) = str_args(x)}}

\* the call f(x) on the optimizer o, and what the history keeps of it
call_on(o, cache_key, x, use) ==
    \E done \in {wrapper(o, cache_key, x)} :
        /\ result_cache' = done.result_cache
        /\ stats' = done.stats
        /\ executions' = done.executions
        /\ completed_calls' = done.completed_calls
        /\ dropped' = done.dropped
        /\ cache_use' = use
        /\ last_cache_call' =
              <<[cache_key |-> cache_key, args |-> x,
                 earlier_equal |-> earlier_equal(o, cache_key, x),
                 earlier_same_text |-> earlier_same_text(o, cache_key, x),
                 was_dropped |-> full_key(cache_key, x) \in o.dropped,
                 cache_before |-> o.result_cache, stats_before |-> o.stats,
                 executed |-> done.executed, returned |-> done.returned]>>

\* f(x)
call_wrapped(cache_key, x) ==
    /\ cache_use.calls < MaxCacheCalls
    /\ call_on(TheOptimizer, cache_key, x, [cache_use EXCEPT !.calls = cache_use.calls + 1])
    /\ UNCHANGED <<tracker_vars, sgf_vars, system_vars, analysis_vars, learning_vars, teaching_vars, processor_vars>>

\* for i in range(first, first + LoopLength): f(i), as in lines 462-470 of
\* benchmark_performance.  The loops of a run come before its single calls.
call_wrapped_in_a_loop(cache_key, first) ==
    /\ cache_use.loops < MaxLoops
    /\ cache_use.calls = 0 /\ cache_use.clears = 0
    /\ call_on(calls_in_a_loop(TheOptimizer, cache_key, first, LoopLength - 1),
               cache_key, [kind |-> "int", n |-> first + LoopLength - 1],
               [cache_use EXCEPT !.loops = cache_use.loops + 1])
    /\ UNCHANGED <<tracker_vars, sgf_vars, system_vars, analysis_vars, learning_vars, teaching_vars, processor_vars>>

\* clear_cache(): lines 131-134
clear_cache ==
    /\ cache_use.clears < MaxClears
    /\ result_cache' = <<>>
    /\ dropped' = dropped \cup keys_of(result_cache)
    /\ cache_use' = [cache_use EXCEPT !.clears = cache_use.clears + 1]
    /\ last_cache_call' = None
    /\ UNCHANGED <<stats, executions, completed_calls>>
    /\ UNCHANGED <<tracker_vars, sgf_vars, system_vars, analysis_vars, learning_vars, teaching_vars, processor_vars>>

NextCache ==
    \/ \E cache_key \in CacheKeys, x \in ArgsOffered : call_wrapped(cache_key, x)
    \/ \E cache_key \in NoCacheKeys, x \in UncachedArgsOffered : call_wrapped(cache_key, x)
    \/ \E cache_key \in CacheKeys, first \in {1, executions + 1} : call_wrapped_in_a_loop(cache_key, first)
    \/ clear_cache

SpecCache == Init /\ [][NextCache]_vars

-----------------------------------------------------------------------------
(* Threads calling analyze_position_for_interface while the worker runs *)

\* lines 445-452: the request is built and put on analysis_queue
put_request(t, board_state) ==
    /\ caller[t].pc = "idle"
    /\ caller[t].calls < MaxAnalysisCalls
    /\ \E request \in {[request_id |-> request_id(board_state), position_data |-> board_state]} :
         /\ analysis_queue' = Append(analysis_queue, request)
         /\ caller' = [caller EXCEPT ![t] = [pc |-> "waiting", request |-> <<request>>, calls |-> caller[t].calls + 1]]
    /\ UNCHANGED <<result_queue, worker, analysis_calls, discarded>>
    /\ UNCHANGED <<tracker_vars, sgf_vars, system_vars, cache_vars, learning_vars, teaching_vars, processor_vars>>

\* lines 460-463: an item is on result_queue; get_nowait() takes it, and the
\* call returns its result if it carries the id of the request.  An item
\* with another id is not put back.
poll_result_queue(t) ==
    /\ caller[t].pc = "waiting"
    /\ result_queue # <<>>
    /\ result_queue' = Tail(result_queue)
    /\ \E result_item \in {Head(result_queue)} :
         IF result_item.request_id = caller[t].request[1].request_id
         THEN /\ caller' = [caller EXCEPT ![t].pc = "idle", ![t].request = None]
              /\ analysis_calls' = Append(analysis_calls,
                     [thread |-> t, request |-> caller[t].request[1],
                      returned |-> result_item.result, lost |-> FALSE])
              /\ UNCHANGED discarded
         ELSE /\ discarded' = Append(discarded, [by |-> t, item |-> result_item])
              /\ UNCHANGED <<caller, analysis_calls>>
    /\ UNCHANGED <<analysis_queue, worker>>
    /\ UNCHANGED <<tracker_vars, sgf_vars, system_vars, cache_vars, learning_vars, teaching_vars, processor_vars>>

\* the request of thread t is still on its way: on analysis_queue, with the
\* worker, or answered on result_queue
on_its_way(t) ==
    \/ \E i \in 1..Len(analysis_queue) : analysis_queue[i].request_id = caller[t].request[1].request_id
    \/ worker # None /\ worker[1].request_id = caller[t].request[1].request_id
    \/ \E i \in 1..Len(result_queue) : result_queue[i].request_id = caller[t].request[1].request_id

\* lines 458 and 470: five seconds have passed and the default result is
\* returned.  The worker answers well within the five seconds, so this
\* happens only to a request that is no longer on its way.
time_out(t) ==
    /\ caller[t].pc = "waiting"
    /\ ~on_its_way(t)
    /\ caller' = [caller EXCEPT ![t].pc = "idle", ![t].request = None]
    /\ analysis_calls' = Append(analysis_calls,
           [thread |-> t, request |-> caller[t].request[1],
            returned |-> _get_default_analysis_result,
            lost |-> \E i \in 1..Len(discarded) :
                         discarded[i].item.request_id = caller[t].request[1].request_id])
    /\ UNCHANGED <<analysis_queue, result_queue, worker, discarded>>
    /\ UNCHANGED <<tracker_vars, sgf_vars, system_vars, cache_vars, learning_vars, teaching_vars, processor_vars>>

\* _analysis_worker, lines 60-61: the worker takes the next request
worker_get ==
    /\ worker = None
    /\ analysis_queue # <<>>
    /\ worker' = <<Head(analysis_queue)>>
    /\ analysis_queue' = Tail(analysis_queue)
    /\ UNCHANGED <<result_queue, caller, analysis_calls, discarded>>
    /\ UNCHANGED <<tracker_vars, sgf_vars, system_vars, cache_vars, learning_vars, teaching_vars, processor_vars>>

\* _analysis_worker, lines 62-73: the analysis, and its result put on
\* result_queue under the id of the request
worker_put ==
    /\ worker # None
    /\ result_queue' = Append(result_queue,
           [request_id |-> worker[1].request_id,
            result |-> _perform_analysis(worker[1].position_data)])
    /\ worker' = None
    /\ UNCHANGED <<analysis_queue, caller, analysis_calls, discarded>>
    /\ UNCHANGED <<tracker_vars, sgf_vars, system_vars, cache_vars, learning_vars, teaching_vars, processor_vars>>

NextAnalysis ==
    \/ \E t \in Callers, board_state \in Positions : put_request(t, board_state)
    \/ \E t \in Callers : poll_result_queue(t)
    \/ \E t \in Callers : time_out(t)
    \/ worker_get
    \/ worker_put

SpecAnalysis == Init /\ [][NextAnalysis]_vars

-----------------------------------------------------------------------------
(* ContinuousLearningSystem (continuous_improvement.py): start(), stop()  *)
(* and the _learning_loop threads.  start() and stop() are called one      *)
(* after the other by the thread that owns the system.                     *)

\* start(): lines 48-54.  A new thread enters _learning_loop at its test.
start ==
    /\ learning_use < MaxLearningCalls
    /\ learning_use' = learning_use + 1
    /\ IF ~is_running
       THEN /\ is_running' = TRUE
            /\ loops' = Append(loops, "testing")
            /\ learning_thread' = <<Len(loops) + 1>>
       ELSE UNCHANGED <<is_running, loops, learning_thread>>
    /\ UNCHANGED learning_log
    /\ UNCHANGED <<tracker_vars, sgf_vars, system_vars, cache_vars, analysis_vars, teaching_vars, processor_vars>>

\* stop(): lines 56-61.  join(timeout=2) waits for the thread for two
\* seconds at most and returns whether the thread has ended or not.
stop ==
    /\ learning_use < MaxLearningCalls
    /\ learning_use' = learning_use + 1
    /\ is_running' = FALSE
    /\ UNCHANGED <<loops, learning_thread, learning_log>>
    /\ UNCHANGED <<tracker_vars, sgf_vars, system_vars, cache_vars, analysis_vars, teaching_vars, processor_vars>>

\* line 67: while self.is_running
loop_test(thread) ==
    /\ loops[thread] = "testing"
    /\ loops' = [loops EXCEPT ![thread] = IF is_running THEN "stepping" ELSE "ended"]
    /\ UNCHANGED <<is_running, learning_thread, learning_log, learning_use>>
    /\ UNCHANGED <<tracker_vars, sgf_vars, system_vars, cache_vars, analysis_vars, teaching_vars, processor_vars>>

\* lines 70-79: the learning step with its entry in learning_log
loop_step(thread) ==
    /\ loops[thread] = "stepping"
    /\ Len(learning_log) < MaxLearningSteps
    /\ learning_log' = Append(learning_log, thread)
    /\ loops' = [loops EXCEPT ![thread] = "sleeping"]
    /\ UNCHANGED <<is_running, learning_thread, learning_use>>
    /\ UNCHANGED <<tracker_vars, sgf_vars, system_vars, cache_vars, analysis_vars, teaching_vars, processor_vars>>

\* line 82: time.sleep(learning_interval) is over
loop_wake(thread) ==
    /\ loops[thread] = "sleeping"
    /\ loops' = [loops EXCEPT ![thread] = "testing"]
    /\ UNCHANGED <<is_running, learning_thread, learning_log, learning_use>>
    /\ UNCHANGED <<tracker_vars, sgf_vars, system_vars, cache_vars, analysis_vars, teaching_vars, processor_vars>>

NextLearning ==
    \/ start
    \/ stop
    \/ \E thread \in 1..Len(loops) : loop_test(thread)
    \/ \E thread \in 1..Len(loops) : loop_step(thread)
    \/ \E thread \in 1..Len(loops) : loop_wake(thread)

SpecLearning == Init /\ [][NextLearning]_vars

-----------------------------------------------------------------------------
(* One InteractiveTeachingMode used for the sessions of the students *)

\* start_teaching_session(student): lines 424-450.  Without a next lesson
\* current_lesson stays what it was.
start_teaching_session(student) ==
    /\ Len(given[student]) < MaxSessions
    /\ \E next_lesson \in {get_next_lesson_for_student(student_progress, student)} :
         /\ student_id' = <<student>>
         /\ IF next_lesson # None
            THEN /\ current_lesson' = <<next_lesson[1].lesson_id>>
                 /\ student_progress' = update_student_progress(student_progress,
                        student, next_lesson[1].lesson_id, "in_progress")
            ELSE UNCHANGED <<current_lesson, student_progress>>
         /\ last_session' =
                <<[student |-> student, returned |-> next_lesson,
                   completed_before |-> get_student_completed_lessons(student_progress, student)]>>
         /\ given' = [given EXCEPT ![student] =
                Append(@, IF next_lesson = None THEN "None" ELSE next_lesson[1].lesson_id)]
    /\ UNCHANGED ever_completed
    /\ UNCHANGED <<tracker_vars, sgf_vars, system_vars, cache_vars, analysis_vars, learning_vars, processor_vars>>

\* complete_lesson(): lines 497-516
complete_lesson ==
    /\ IF current_lesson # None /\ student_id # None
       THEN /\ student_progress' = update_student_progress(student_progress,
                   student_id[1], current_lesson[1], "completed")
            /\ ever_completed' = [ever_completed EXCEPT ![student_id[1]] = @ \cup {current_lesson[1]}]
            /\ current_lesson' = None
       ELSE UNCHANGED <<student_progress, ever_completed, current_lesson>>
    /\ last_session' = None
    /\ UNCHANGED <<student_id, given>>
    /\ UNCHANGED <<tracker_vars, sgf_vars, system_vars, cache_vars, analysis_vars, learning_vars, processor_vars>>

NextTeaching ==
    \/ \E student \in Students : start_teaching_session(student)
    \/ complete_lesson

SpecTeaching == Init /\ [][NextTeaching]_vars

-----------------------------------------------------------------------------
(* One MultiThreadedProcessor, its worker threads and the thread using it *)

\* num_threads as the processor is constructed here
NumThreads == 2

\* the task types _process_single_task knows, and the one a task without
\* 'type' gets from task_data.get('type', 'unknown')
KnownTypes == {"position_analysis", "pattern_match", "life_death"}
TaskTypes == KnownTypes \cup {"unknown"}

\* the end signal shutdown() puts on task_queue
EndSignal == [type |-> "None", task_id |-> -1]

\* _process_single_task: lines 221-233, by whether it returns or raises
_process_single_task(task_data) ==
    IF task_data.type = "position_analysis" THEN [raised |-> FALSE]
    ELSE IF task_data.type = "pattern_match" THEN [raised |-> FALSE]
    ELSE IF task_data.type = "life_death" THEN [raised |-> FALSE]
    ELSE [raised |-> TRUE]

\* start_workers(): lines 176-183
start_workers ==
    /\ workers = <<>>
    /\ workers' = [i \in 1..NumThreads |-> [at |-> "while", task_data |-> EndSignal]]
    /\ processor_stats' = [processor_stats EXCEPT !.active_threads = NumThreads]
    /\ UNCHANGED <<task_queue, unfinished_tasks, processor_result_queue, shutdown_event, processor_use>>
    /\ UNCHANGED <<tracker_vars, sgf_vars, system_vars, cache_vars, analysis_vars, learning_vars, teaching_vars>>

\* submit_task(task_data): lines 271-273.  The tasks are submitted before
\* shutdown() is called, and numbered in the order of their submission.
submit_task(task_type) ==
    /\ processor_use.submitted < MaxTasks
    /\ processor_use.shutdown = "not called"
    /\ task_queue' = Append(task_queue, [type |-> task_type, task_id |-> processor_use.submitted])
    /\ unfinished_tasks' = unfinished_tasks + 1
    /\ processor_use' = [processor_use EXCEPT !.submitted = @ + 1]
    /\ UNCHANGED <<processor_result_queue, shutdown_event, workers, processor_stats>>
    /\ UNCHANGED <<tracker_vars, sgf_vars, system_vars, cache_vars, analysis_vars, learning_vars, teaching_vars>>

\* _worker, line 187: the test of the while loop
worker_while(i) ==
    /\ i \in DOMAIN workers
    /\ workers[i].at = "while"
    /\ workers' = [workers EXCEPT ![i].at = IF shutdown_event THEN "returned" ELSE "get"]
    /\ UNCHANGED <<task_queue, unfinished_tasks, processor_result_queue, shutdown_event, processor_stats, processor_use>>
    /\ UNCHANGED <<tracker_vars, sgf_vars, system_vars, cache_vars, analysis_vars, learning_vars, teaching_vars>>

\* _worker, lines 190-192 and 218-219: task_queue.get(timeout=1) returns the
\* head of the queue, the end signal breaks the loop (task_done is not
\* called for it), and queue.Empty after the timeout continues the loop
worker_get_task(i) ==
    /\ i \in DOMAIN workers
    /\ workers[i].at = "get"
    /\ IF task_queue = <<>>
       THEN /\ workers' = [workers EXCEPT ![i].at = "while"]
            /\ UNCHANGED task_queue
       ELSE /\ task_queue' = Tail(task_queue)
            /\ workers' = [workers EXCEPT ![i] =
                   IF Head(task_queue) = EndSignal
                   THEN [at |-> "returned", task_data |-> EndSignal]
                   ELSE [at |-> "process", task_data |-> Head(task_queue)]]
    /\ UNCHANGED <<unfinished_tasks, processor_result_queue, shutdown_event, processor_stats, processor_use>>
    /\ UNCHANGED <<tracker_vars, sgf_vars, system_vars, cache_vars, analysis_vars, learning_vars, teaching_vars>>

\* _worker, lines 196-198 and 210-211: the task is processed and its tuple
\* put on result_queue
worker_put_result(i) ==
    /\ i \in DOMAIN workers
    /\ workers[i].at = "process"
    /\ processor_result_queue' = Append(processor_result_queue,
           [status |-> IF _process_single_task(workers[i].task_data).raised THEN "error" ELSE "success",
            task_id |-> workers[i].task_data.task_id,
            type |-> workers[i].task_data.type])
    /\ workers' = [workers EXCEPT ![i].at = "count"]
    /\ UNCHANGED <<task_queue, unfinished_tasks, shutdown_event, processor_stats, processor_use>>
    /\ UNCHANGED <<tracker_vars, sgf_vars, system_vars, cache_vars, analysis_vars, learning_vars, teaching_vars>>

\* _worker, lines 201-208 and 212-213: the counter is updated under
\* stats_lock (avg_processing_time is left out)
worker_update_stats(i) ==
    /\ i \in DOMAIN workers
    /\ workers[i].at = "count"
    /\ processor_stats' =
           IF _process_single_task(workers[i].task_data).raised
           THEN [processor_stats EXCEPT !.error_count = @ + 1]
           ELSE [processor_stats EXCEPT !.processed_count = @ + 1]
    /\ workers' = [workers EXCEPT ![i].at = "finally"]
    /\ UNCHANGED <<task_queue, unfinished_tasks, processor_result_queue, shutdown_event, processor_use>>
    /\ UNCHANGED <<tracker_vars, sgf_vars, system_vars, cache_vars, analysis_vars, learning_vars, teaching_vars>>

\* _worker, lines 215-216: task_queue.task_done()
worker_task_done(i) ==
    /\ i \in DOMAIN workers
    /\ workers[i].at = "finally"
    /\ unfinished_tasks' = unfinished_tasks - 1
    /\ workers' = [workers EXCEPT ![i] = [at |-> "while", task_data |-> EndSignal]]
    /\ UNCHANGED <<task_queue, processor_result_queue, shutdown_event, processor_stats, processor_use>>
    /\ UNCHANGED <<tracker_vars, sgf_vars, system_vars, cache_vars, analysis_vars, learning_vars, teaching_vars>>

\* shutdown(), lines 294-298: the event is set and one end signal per thread
\* put on the queue
shutdown ==
    /\ processor_use.shutdown = "not called"
    /\ shutdown_event' = TRUE
    /\ task_queue' = task_queue \o [k \in 1..NumThreads |-> EndSignal]
    /\ unfinished_tasks' = unfinished_tasks + NumThreads
    /\ processor_use' = [processor_use EXCEPT !.shutdown = "joining"]
    /\ UNCHANGED <<processor_result_queue, workers, processor_stats>>
    /\ UNCHANGED <<tracker_vars, sgf_vars, system_vars, cache_vars, analysis_vars, learning_vars, teaching_vars>>

\* shutdown(), lines 301-304: each join(timeout=2) ends with its thread or
\* after two seconds, then active_threads is set to 0
shutdown_joined ==
    /\ processor_use.shutdown = "joining"
    /\ processor_stats' = [processor_stats EXCEPT !.active_threads = 0]
    /\ processor_use' = [processor_use EXCEPT !.shutdown = "returned"]
    /\ UNCHANGED <<task_queue, unfinished_tasks, processor_result_queue, shutdown_event, workers>>
    /\ UNCHANGED <<tracker_vars, sgf_vars, system_vars, cache_vars, analysis_vars, learning_vars, teaching_vars>>

NextProcessor ==
    \/ start_workers
    \/ \E task_type \in TaskTypes : submit_task(task_type)
    \/ \E i \in 1..NumThreads : worker_while(i)
    \/ \E i \in 1..NumThreads : worker_get_task(i)
    \/ \E i \in 1..NumThreads : worker_put_result(i)
    \/ \E i \in 1..NumThreads : worker_update_stats(i)
    \/ \E i \in 1..NumThreads : worker_task_done(i)
    \/ shutdown
    \/ shutdown_joined

SpecProcessor == Init /\ [][NextProcessor]_vars


-----------------------------------------------------------------------------
(* Properties of the sequential tracker (Spec) *)

\* the stored records of a user, ordered by timestamp
History(user_id) == OrderByTimestamp(RowsOf(user_id))

\* the call that stored row r
GameOf(r) ==
    CHOOSE c \in Range(calls) : c.outcome = "ok" /\ c.record_id = r.record_id

\* the user's games_played before the call c is counted
GamesBefore(c) ==
    IF c.last_record = None THEN 0 ELSE c.last_record[1].games_played

\* the row a successful call stored
RowOf(c) == CHOOSE r \in Range(db) : r.record_id = c.record_id

\* C1: for every user the stored records, ordered by timestamp, have
\* games_played 1, 2, 3, ... and games_won grows by 1 from one record to the
\* next exactly when that record's game was a win (result 1.0), else by 0.
C1_HistoryCounts ==
    \A u \in Users :
        LET h == History(u)
        IN  \A i \in 1..Len(h) :
                /\ h[i].games_played = i
                /\ h[i].games_won =
                       (IF i = 1 THEN 0 ELSE h[i - 1].games_won)
                       + (IF GameOf(h[i]).game_result = WIN THEN 1 ELSE 0)

\* C1 witness: a user with three stored records, the second not a win and
\* the third a win, while the other user has a record too.
C1_Witness ==
    \E u \in Users :
        LET h == History(u)
        IN  /\ Len(h) = 3
            /\ GameOf(h[2]).game_result # WIN
            /\ GameOf(h[3]).game_result = WIN

\* a first game of a user, won against an opponent rated 1500, and stored
FirstWinAt1500(c) ==
    /\ c.last_record = None
    /\ c.opponent_rating = 1500 * Unit
    /\ c.game_result = WIN
    /\ c.outcome = "ok"

C7_EveryCallStoresARecord ==
    /\ Len(db) = Len(calls)
    /\ \A i \in 1..Len(calls) : calls[i].outcome = "ok"

-----------------------------------------------------------------------------
(* Properties of RatingCalculator (SpecCalc) *)

\* the evaluations of calculate_new_rating that returned
Rated == {t \in Range(rating_trials) : t.out.error = ""}

\* C2: whatever the old rating, the opponent's rating and the result, also
\* after consecutive losses, the rating calculate_new_rating returns (the one
\* record_game_result stores) is at least 100.
C2_RatingFloor == \A t \in Rated : t.out.new_rating >= 100 * Unit

\* C2 witness: three consecutive losses, the last of which would take the
\* rating below 100 and leaves it at 100.
C2_Witness ==
    /\ Len(rating_trials) = 3
    /\ \A i \in 1..3 : /\ rating_trials[i].out.error = ""
                       /\ rating_trials[i].game_result = LOSS
    /\ \A i \in 2..3 : rating_trials[i].via = "next_game"
    /\ LET t == rating_trials[3]
       IN  /\ updated_rating(t.old_rating, t.out.k_factor, t.game_result,
                             t.out.expected) < 100 * Unit
           /\ t.out.new_rating = 100 * Unit

\* C5: the K-factor is non-increasing in games_played, at most 60 for
\* games_played >= 0, never below 20, and 20 from 400 games on.
C5_KFactorDecay ==
    /\ \A t \in Rated :
           /\ t.out.k_factor >= 20 * Tenth
           /\ t.games_played >= 0 => t.out.k_factor <= 60 * Tenth
           /\ t.games_played >= 400 => t.out.k_factor = 20 * Tenth
    /\ \A t1, t2 \in Rated :
           t1.games_played <= t2.games_played => t1.out.k_factor >= t2.out.k_factor

\* C5 witness: evaluations at 399 and at 1000 games, with K-factors 20.1
\* and 20.
C5_Witness ==
    /\ Len(rating_trials) = 2
    /\ rating_trials[1].games_played = 399
    /\ rating_trials[1].out.k_factor = 20 * Tenth + 1
    /\ rating_trials[2].games_played = 1000
    /\ rating_trials[2].out.k_factor = 20 * Tenth

\* the place of a label in the fixed rank order
RankIndex(rank) == CHOOSE i \in 1..Len(RankOrder) : RankOrder[i] = rank

\* the place of the first threshold T with rating < T (one past the last
\* threshold when there is none)
FirstAbove(rating) ==
    1 + Cardinality({i \in 1..Len(Thresholds) : Thresholds[i] * Unit <= rating})

\* C6: estimate_strength gives the label of the first threshold above the
\* rating (strictly), the top label from 3600 on, so a lower rating never
\* gets a higher label than a higher rating.
C6_RankThresholds ==
    /\ \A t \in Range(strength_trials) : t.rank = RankOrder[FirstAbove(t.rating)]
    /\ \A t1, t2 \in Range(strength_trials) :
           t1.rating < t2.rating => RankIndex(t1.rank) <= RankIndex(t2.rank)

\* C6 witness: the rating 1500 labelled "5 kyu" next to the rating just below
\* it labelled "10 kyu".
C6_Witness ==
    /\ Len(strength_trials) = 2
    /\ strength_trials[1] = [rating |-> 1500 * Unit - 1, rank |-> "10 kyu"]
    /\ strength_trials[2] = [rating |-> 1500 * Unit, rank |-> "5 kyu"]

-----------------------------------------------------------------------------
(* Properties of MilestoneManager (SpecMilestones) *)

\* how many times check_milestones has returned the key, to whichever user
TimesReported(key) ==
    Cardinality({ui \in Users \X (1..MaxChecks) :
                    ui[2] <= Len(reported[ui[1]][key])})

\* C9: over any sequence of record_game_result and check_milestones calls on
\* one MilestoneManager, every milestone key is returned at most once, also
\* when the rating or the win rate falls below the threshold and crosses it
\* again.
C9_ReportedAtMostOnce ==
    \A k \in Range(MilestoneKeys) : TimesReported(k) <= 1

\* C9 witness: win_rate_60 was returned after the user's first game; the
\* second game took the win rate below 60%, the third back above, and the
\* check after the third game found the condition met and did not return it.
C9_Witness ==
    \E u \in Users :
        LET h == History(u)
        IN  /\ Len(h) = 3
            /\ h[2].win_rate * 10 < 6 * Prob
            /\ h[3].win_rate * 10 >= 6 * Prob
            /\ reported[u]["win_rate_60"] = <<1>>
            /\ last_check # None
            /\ last_check[1].user_id = u
            /\ "win_rate_60" \in last_check[1].met
            /\ "win_rate_60" \notin Range(last_check[1].new_milestones)

\* C10 as claimed: milestones are tracked per user, so once check_milestones
\* has run for a user, every milestone whose condition that user met at the
\* check has been returned for that user, whatever was returned for others.
C10_TrackedPerUser ==
    last_check # None =>
        \A k \in last_check[1].met :
            reported[last_check[1].user_id][k] # <<>>

\* the summary check_milestones obtained came from a user without records
SummaryOfNoRecords ==
    /\ last_check # None
    /\ RowsOf(last_check[1].user_id) = <<>>

\* the initial-state default summary with the given rank label
DefaultSummary(rank) ==
    [current_rating |-> 1500 * Unit, current_rank |-> rank, total_games |-> 0,
     win_rate |-> 0, improvement_trend |-> "unknown", last_updated |-> None]

\* C11 as claimed: get_progress_summary for a user with no stored records
\* returns rating 1500, the rank label of the "30 kyu" tier, total_games 0 and
\* win_rate 0.0.
C11_AsClaimed ==
    SummaryOfNoRecords => last_check[1].summary = DefaultSummary("30 kyu")

\* C11: get_progress_summary for a user with no stored records returns
\* rating 1500, the rank label estimate_strength gives 1500 ("5 kyu"),
\* total_games 0 and win_rate 0.0, also when other users have records and
\* when an earlier failed save still holds the database's write lock.
C11_EmptySummary ==
    SummaryOfNoRecords => last_check[1].summary = DefaultSummary("5 kyu")

\* C11 witness: the summary of a user without records was taken while
\* another user has a record and a failed save holds the write lock.
C11_Witness ==
    /\ SummaryOfNoRecords
    /\ db # <<>>
    /\ leaked
    /\ last_check[1].summary.current_rank = "5 kyu"

-----------------------------------------------------------------------------
(* Properties of concurrent calls (SpecThreads) *)

\* the calls that stored a record
Stored == {c \in Range(calls) : c.outcome = "ok"}

\* two stored records of one user carry the same games_played
SameGamesPlayed(c1, c2) ==
    /\ c1.record_id # c2.record_id
    /\ c1.user_id = c2.user_id
    /\ RowOf(c1).games_played = RowOf(c2).games_played

\* a row of the user was stored between the call's fetch and its save
Interleaved(c) == c.rows_at_save # c.rows_at_read

\* C8: record_game_result is a read-modify-write that nothing serializes:
\* two stored records of one user carry the same games_played only if a call
\* had a row of that user stored between its fetch of the latest record and
\* its own save; with the calls serialized there are no two such records.
C8_SerializedKeepsHistory ==
    (\E c1, c2 \in Stored : SameGamesPlayed(c1, c2))
        => \E c \in Stored : Interleaved(c)

\* C8 witness: two interleaved calls for one user fetched the same latest
\* record and both stored a record, with the same games_played.
C8_Witness ==
    \E c1, c2 \in Stored :
        /\ SameGamesPlayed(c1, c2)
        /\ c1.last_record = c2.last_record
        /\ Interleaved(c2)

-----------------------------------------------------------------------------
(* Properties of SGFParser (SpecSGF) *)

\* the calls that were given a text: parse_sgf, and load_from_file on a file
\* that exists
Parsed == {e \in Range(parses) : e.text # None}

\* the move tokens of a text in document order: B or W, "[", and the
\* content up to the next "]"
TokenStarts(text) ==
    {i \in 1..Len(text) :
        /\ text[i] \in {"B", "W"}
        /\ i < Len(text) /\ text[i + 1] = "["
        /\ \E j \in (i + 2)..Len(text) : text[j] = "]"}

TokenAt(text, i) ==
    LET j == CHOOSE c \in (i + 2)..Len(text) :
                 /\ text[c] = "]"
                 /\ \A d \in (i + 2)..(c - 1) : text[d] # "]"
    IN  [color |-> text[i], content |-> SubSeq(text, i + 2, j - 1)]

MoveTokens(text) ==
    [k \in 1..Cardinality(TokenStarts(text)) |->
        TokenAt(text, CHOOSE i \in TokenStarts(text) :
                          Cardinality({n \in TokenStarts(text) : n <= i}) = k)]

IsPass(content) == content = <<>> \/ content = <<"t", "t">>
IsCoordinate(content) ==
    Len(content) = 2 /\ \A i \in 1..2 : content[i] \in Range(LowerCase)

\* C12 as claimed: parse_sgf on ;GM[1]FF[4]SZ[19];B[pd];W[dp];B[] returns
\* size 19 and the moves (1,'B',(3,15)), (2,'W',(15,3)), (3,'B',None).
C12_ExampleParsed ==
    \A e \in Range(parses) :
        (e.call = "parse_sgf" /\ e.argument = ExampleGame) =>
            /\ e.returned # None
            /\ e.returned[1].size = 19
            /\ e.returned[1].moves = <<<<1, "B", <<<<3, 15>>>>>>,
                                       <<2, "W", <<<<15, 3>>>>>>,
                                       <<3, "B", None>>>>

\* C13 as claimed: parse_sgf raises for no text, be it malformed, truncated
\* or empty; the only call that raises is load_from_file on a file that is
\* missing.
C13_ParseNeverRaises ==
    \A e \in Range(parses) :
        e.raised # None => (e.call = "load_from_file" /\ e.text = None)

\* the size the text asks for: the integer of its SZ tag, 19 without one
ClaimedSize(text) ==
    LET tag == tag_value(SZ, cleaned(text))
    IN  IF tag # None /\ int_value(tag[1]) # None THEN int_value(tag[1])[1]
        ELSE 19

\* C14 as claimed: every parse_sgf call, also on a parser that has parsed
\* other texts before, returns as size the integer of the text's SZ tag, and
\* 19 when the text has no SZ tag or one that is no integer.
C14_SizeOfThisText ==
    \A e \in Parsed :
        /\ e.returned # None
        /\ e.returned[1].size = ClaimedSize(e.text[1])

\* C15 as claimed: every move token with an empty bracket or the pass
\* sentinel tt gives an entry of the returned move list with coordinate
\* None, numbered by the token's place among the move tokens.
C15_PassesKept ==
    \A e \in Parsed :
        LET tokens == MoveTokens(e.text[1])
        IN  \A k \in 1..Len(tokens) :
                IsPass(tokens[k].content) =>
                    /\ e.returned # None
                    /\ <<k, tokens[k].color, None>>
                           \in Range(e.returned[1].moves)

\* C16 as claimed: parse_sgf on a text with move tokens returns a move list
\* whose i-th entry carries the number i, whatever the colours.
C16_NumberedInOrder ==
    \A e \in Parsed :
        MoveTokens(e.text[1]) # <<>> =>
            /\ e.returned # None
            /\ \A i \in 1..Len(e.returned[1].moves) :
                   e.returned[1].moves[i][1] = i

\* C17 as claimed: a move token whose content is neither empty, nor tt, nor
\* two lowercase letters adds no entry to the move list and does not make
\* the parser raise.
C17_OddTokensSkipped ==
    \A e \in Parsed :
        LET tokens == MoveTokens(e.text[1])
            odd == {k \in 1..Len(tokens) :
                       /\ ~IsPass(tokens[k].content)
                       /\ ~IsCoordinate(tokens[k].content)}
        IN  odd # {} =>
                /\ e.raised = None
                /\ e.returned # None
                /\ Len(e.returned[1].moves) = Len(tokens) - Cardinality(odd)

\* the move properties of a text: the tokens whose tag is B or W alone, not
\* the end of a longer tag such as PB, PW or AB
MovePropertyStarts(text) ==
    {i \in TokenStarts(text) : i = 1 \/ text[i - 1] \notin UpperCase}

\* C24 as claimed: the move list parse_sgf returns has one entry for every
\* move property B[..] or W[..] of the text and none for a header or setup
\* property whose tag ends in B or W, such as PB[ab], PW[cd] or AB[dd].
C24_OnlyMovesCounted ==
    \A e \in Parsed :
        MovePropertyStarts(e.text[1]) # TokenStarts(e.text[1]) =>
            /\ e.returned # None
            /\ Len(e.returned[1].moves)
                   = Cardinality({i \in MovePropertyStarts(e.text[1]) :
                         \/ IsPass(TokenAt(e.text[1], i).content)
                         \/ IsCoordinate(TokenAt(e.text[1], i).content)})

\* chr('a' + col) chr('a' + row)
Encode(coordinate) ==
    <<LowerCase[coordinate[2] + 1], LowerCase[coordinate[1] + 1]>>

\* the evaluations of the loop body on a two-letter coordinate of the board
Decoded == {t \in Range(decodes) : t.coord \in TrialCoords /\ ~IsPass(t.coord)
                                     /\ Len(t.coord) = 2}

-----------------------------------------------------------------------------
(* Properties of TWIntegratedSystem (SpecSystem) *)

Navigations == {i \in 1..Len(system_calls) :
                   system_calls[i].call = "navigate_game_history"}
Placements == {i \in 1..Len(system_calls) :
                  system_calls[i].call = "place_stone_and_analyze"}

\* C19 as claimed: navigate_game_history(step) returns the position moved by
\* step within [0, total] and, as total, the move count of the game, which
\* navigating does not change; the later moves are kept, so navigate(-k)
\* followed by navigate(+k) returns to the position held before.
C19_NavigateKeepsGame ==
    /\ \A i \in Navigations :
           system_calls[i].returned[2]
               = Len(system_calls[i].before.game_history)
    /\ \A i \in Navigations :
           (/\ i + 1 \in Navigations
            /\ system_calls[i].arguments[1] < 0
            /\ system_calls[i + 1].arguments[1]
                   = 0 - system_calls[i].arguments[1]
            /\ Len(system_calls[i].before.game_history)
                   >= system_calls[i + 1].arguments[1])
               => system_calls[i + 1].returned[1]
                      = Len(system_calls[i].before.game_history)

\* the player a placement is made for: the one given, or the current one
PlayerOf(e) ==
    IF e.arguments[3] = None THEN e.before.current_player
    ELSE e.arguments[3][1]

\* the point is inside the board and empty and the player is B or W
Playable(e) ==
    /\ e.arguments[1] \in 0..(e.before.board.size - 1)
    /\ e.arguments[2] \in 0..(e.before.board.size - 1)
    /\ \A stone \in e.before.board.stones :
           <<stone[1], stone[2]>> # <<e.arguments[1], e.arguments[2]>>
    /\ PlayerOf(e) \in {"B", "W"}

\* C20: place_stone_and_analyze succeeds exactly when the point is inside
\* the board and empty and the player is B or W; a success appends one entry
\* to game_history and makes the opponent the current player; a failure
\* returns False with a message and changes neither the board, nor
\* game_history, nor current_player.
C20_PlaceStone ==
    \A i \in Placements : \A e \in {system_calls[i]} :
        /\ e.returned[1] = Playable(e)
        /\ e.returned[1] =>
               /\ Len(e.after.game_history) = Len(e.before.game_history) + 1
               /\ SubSeq(e.after.game_history, 1, Len(e.before.game_history))
                      = e.before.game_history
               /\ e.after.game_history[Len(e.after.game_history)][2]
                      = PlayerOf(e)
               /\ e.after.current_player # PlayerOf(e)
               /\ e.after.current_player \in {"B", "W"}
        /\ ~e.returned[1] =>
               /\ e.returned[2] = "invalid move"
               /\ e.after = e.before

\* C20 witness: a stone was placed, a second placement on the same point
\* failed, and a third on another point succeeded.
C20_Witness ==
    /\ Len(system_calls) = 3
    /\ \A i \in 1..3 : system_calls[i].call = "place_stone_and_analyze"
    /\ system_calls[1].returned[1]
    /\ ~system_calls[2].returned[1]
    /\ <<system_calls[2].arguments[1], system_calls[2].arguments[2]>>
           = <<system_calls[1].arguments[1], system_calls[1].arguments[2]>>
    /\ PlayerOf(system_calls[2]) \in {"B", "W"}
    /\ system_calls[3].returned[1]
    /\ Len(game_history) = 2

-----------------------------------------------------------------------------
(* Properties of the result cache (SpecCache) *)

\* the call counted as a cache hit: the wrapped function was not executed,
\* cache_hits went up by one, cache_misses and tasks_processed stayed
CountedAsHit(c) ==
    /\ ~c.executed
    /\ stats.cache_hits = c.stats_before.cache_hits + 1
    /\ stats.cache_misses = c.stats_before.cache_misses
    /\ stats.tasks_processed = c.stats_before.tasks_processed

\* the value of the latest execution among the values in returns
StoredValue(returns) == CHOOSE v \in returns : \A w \in returns : w.run <= v.run

\* C21 as claimed: a call of a function wrapped with a cache key whose
\* arguments equal those of an earlier completed call returns the stored
\* value without executing the function and is counted as a cache hit.
C21_AsClaimed ==
    \A c \in Range(last_cache_call) :
        (truthy(c.cache_key) /\ c.earlier_equal # {}) =>
            /\ CountedAsHit(c)
            /\ c.returned = StoredValue(c.earlier_equal)

\* C21: a call of a function wrapped with a non-empty cache key, whose
\* arguments print as those of an earlier completed call (the same text of
\* str(args) + str(kwargs)) and whose entry has not been deleted since - by
\* the trimming above 1000 entries or by clear_cache - returns the stored
\* value without executing the function again and is counted as a cache hit:
\* cache_hits + 1, cache_misses and tasks_processed unchanged.
C21_HitOnStoredEntry ==
    \A c \in Range(last_cache_call) :
        (truthy(c.cache_key) /\ c.earlier_same_text # {} /\ ~c.was_dropped) =>
            /\ CountedAsHit(c)
            /\ c.returned = StoredValue(c.earlier_same_text)

\* a hit on an entry that survived a trimming of the cache
C21_Witness ==
    \E c \in Range(last_cache_call) :
        /\ truthy(c.cache_key) /\ c.earlier_same_text # {} /\ ~c.was_dropped
        /\ ~c.executed
        /\ stats.cache_misses > cache_limit

\* C28: after every completed call of a wrapped function result_cache holds
\* at most 1000 entries; an insertion that makes it exceed 1000 deletes the
\* earliest-inserted half and keeps the entry just inserted.
C28_CacheBounded ==
    /\ Len(result_cache) <= cache_limit
    /\ \A c \in Range(last_cache_call) :
          (c.executed /\ truthy(c.cache_key)) =>
              \E inserted \in {Append(c.cache_before, [key |-> full_key(c.cache_key, c.args), value |-> c.returned])} :
                  /\ result_cache[Len(result_cache)] = inserted[Len(inserted)]
                  /\ IF Len(inserted) > cache_limit
                     THEN result_cache = SubSeq(inserted, Len(inserted) \div 2 + 1, Len(inserted))
                     ELSE result_cache = inserted

\* the insertion of entry 1001 has just trimmed the cache
C28_Witness ==
    \E c \in Range(last_cache_call) :
        /\ c.executed /\ truthy(c.cache_key)
        /\ Len(c.cache_before) = cache_limit
        /\ Len(result_cache) < Len(c.cache_before)

-----------------------------------------------------------------------------
(* Properties of the board, the history and the notation (SpecSystem, SpecGTP) *)

Loads == {i \in 1..Len(system_calls) : system_calls[i].call = "load_sgf"}

\* the size of the game loaded last, 19 when no game has been loaded
LoadedSize ==
    LET loaded == {i \in Loads : system_calls[i].returned[1]}
        last == CHOOSE i \in loaded : \A j \in loaded : j <= i
    IN  IF loaded = {} THEN 19
        ELSE ClaimedSize(Files[system_calls[last].arguments[1]])

\* the stones the entries of game_history stand for
HistoryStones ==
    {<<_gtp_to_coordinate(board, game_history[i][1])[1],
       _gtp_to_coordinate(board, game_history[i][1])[2],
       game_history[i][2]>> : i \in 1..Len(game_history)}

HasToFail(sgf_path) ==
    \/ sgf_path \notin DOMAIN Files
    \/ parse_sgf_outcome(default_size, Files[sgf_path]).raised # None
    \/ parse_sgf_outcome(default_size, Files[sgf_path]).size \notin BoardSizes

\* C23: a load_sgf that fails - the file is missing, the parser raises, the
\* board size is not 9, 13 or 19 - returns (False, message) without raising
\* and leaves board, game_history, current_player and current_sgf_path as
\* they were before the call.
C23_FailedLoadKeepsState ==
    \A i \in Loads : \A e \in {system_calls[i]} :
        /\ HasToFail(e.arguments[1]) => e.returned = <<FALSE, "failed to load">>
        /\ ~e.returned[1] =>
               /\ e.after.board = e.before.board
               /\ e.after.game_history = e.before.game_history
               /\ e.after.current_player = e.before.current_player
               /\ e.after.current_sgf_path = e.before.current_sgf_path

\* C23 witness: with a white stone to play after a black one, loading a
\* missing file fails, and so does loading a file that is there
C23_Witness ==
    /\ Len(system_calls) = 3
    /\ system_calls[1].call = "place_stone_and_analyze" /\ system_calls[1].returned[1]
    /\ system_calls[2].call = "load_sgf" /\ system_calls[2].arguments[1] \notin DOMAIN Files
    /\ system_calls[3].call = "load_sgf" /\ system_calls[3].arguments[1] \in DOMAIN Files
    /\ ~system_calls[3].returned[1]
    /\ current_player = "W" /\ Len(game_history) = 1

\* C25: for every point (row, col) of the 19x19 board _gtp_to_coordinate
\* gives the point back from the text of _coordinate_to_gtp; the text never
\* has the column letter I, and two points with the same text are the same.
C25_GtpRoundTrip ==
    /\ \A t \in Range(gtp_trials) :
           /\ t.back = t.point
           /\ t.gtp[1] # "I"
    /\ \A t1, t2 \in Range(gtp_trials) : t1.gtp = t2.gtp => t1.point = t2.point

\* C25 witness: (3, 7) written H16 and (3, 8) written J16
C25_Witness ==
    gtp_trials = <<[point |-> <<3, 7>>, gtp |-> <<"H", "1", "6">>, back |-> <<3, 7>>],
                   [point |-> <<3, 8>>, gtp |-> <<"J", "1", "6">>, back |-> <<3, 8>>]>>

-----------------------------------------------------------------------------
(* Properties of the analysis queues (SpecAnalysis) *)

\* C26 as claimed: of two threads calling analyze_position_for_interface
\* while the worker runs each gets the analysis of its own request; a
\* result one caller takes off result_queue for the other is not lost, so no
\* caller falls back to the default result because the other consumed its
\* result.
C26_EachGetsItsAnalysis ==
    /\ discarded = <<>>
    /\ \A i \in 1..Len(analysis_calls) :
           analysis_calls[i].returned = _perform_analysis(analysis_calls[i].request.position_data)

-----------------------------------------------------------------------------
(* Properties of ContinuousLearningSystem (SpecLearning) *)

\* the threads that have found is_running true at the test of the loop and
\* are executing a learning step
Stepping == {thread \in 1..Len(loops) : loops[thread] = "stepping"}

\* C27 as claimed: after any sequence of start() and stop() calls at most one
\* _learning_loop thread executes learning steps at any time; a stop()
\* followed by a start() while the old loop still sleeps does not leave two
\* loops running.
C27_OneLearningLoop == Cardinality(Stepping) <= 1

-----------------------------------------------------------------------------
(* Properties of the teaching sessions (SpecTeaching) *)

LessonOrder == <<"basic_001", "basic_002", "basic_003", "None">>

\* s without its repetitions of the entry before
RECURSIVE Distinct(_)
Distinct(s) ==
    IF Len(s) < 2 THEN s
    ELSE IF s[1] = s[2] THEN Distinct(Tail(s))
    ELSE <<s[1]>> \o Distinct(Tail(s))

\* C29: start_teaching_session gives a student a basic lesson only if the
\* student has not completed it and has completed all its prerequisites;
\* over any sequence of start_teaching_session and complete_lesson calls a
\* student is given basic_001, basic_002, basic_003 in this order and then
\* None; a lesson recorded as completed never goes back to in_progress.
C29_LessonsInOrder ==
    /\ \A c \in Range(last_session) :
          IF c.returned # None
          THEN /\ c.returned[1].category = "basic"
               /\ c.returned[1].lesson_id \notin c.completed_before
               /\ c.returned[1].prerequisites \subseteq c.completed_before
          ELSE c.completed_before = LessonIds
    /\ \A s \in Students :
          /\ Distinct(given[s]) = SubSeq(LessonOrder, 1, Len(Distinct(given[s])))
          /\ \A l \in ever_completed[s] : student_progress[s][l] = "completed"

\* C29 witness: a student was given the three lessons one after the other,
\* completed each, and was then given None, while the other student has
\* started the first lesson
C29_Witness ==
    /\ given["test_student"] = LessonOrder
    /\ ever_completed["test_student"] = LessonIds
    /\ given["other_student"] # <<>>

-----------------------------------------------------------------------------
(* Properties of the MultiThreadedProcessor (SpecProcessor) *)

\* the tasks submitted so far, and the tuples task t has yielded
SubmittedTasks == 0..(processor_use.submitted - 1)
TuplesOf(t) == {k \in DOMAIN processor_result_queue : processor_result_queue[k].task_id = t}

\* no thread holds a task, and none is going to take one: the queue holds no
\* task, or every thread has returned
Quiescent ==
    /\ workers # <<>>
    /\ \A i \in DOMAIN workers : workers[i].at \in {"while", "get", "returned"}
    /\ \/ \A k \in DOMAIN task_queue : task_queue[k] = EndSignal
       \/ \A i \in DOMAIN workers : workers[i].at = "returned"

\* C30: at quiescence every submitted task has yielded exactly one tuple on
\* result_queue, 'success' for a known task type and 'error' for an unknown
\* one, also when shutdown() was called while tasks were queued, and
\* processed_count + error_count is the number of tuples
C30_EveryTaskYieldsOneTuple ==
    Quiescent =>
        /\ \A t \in SubmittedTasks :
              /\ Cardinality(TuplesOf(t)) = 1
              /\ \A k \in TuplesOf(t) :
                    processor_result_queue[k].status =
                        IF processor_result_queue[k].type \in KnownTypes THEN "success" ELSE "error"
        /\ processor_stats.processed_count + processor_stats.error_count = Len(processor_result_queue)

====
